---- MODULE Spec2Model ----
(***************************************************************************)
(* Model of the Wavefront MTL parser (src/WavefrontMTL.h): mtl::Load, the  *)
(* per-type parse() overloads, trim, char_cmp and strtoword.               *)
(*                                                                         *)
(* Representation                                                          *)
(*   char        a one-character string; NUL is the empty string ""        *)
(*   char buff[] a sequence of chars; C index i is element i+1; bytes      *)
(*               beyond Len are the zeros of `char buff[..] = {0}`         *)
(*   char*       a C index into buff                                       *)
(*   std::string a sequence of chars                                       *)
(*   double      an integer number of hundredths (1.5 is 150), and NegZero *)
(*               for -0.0; the input alphabet has digits, sign and '.',    *)
(*               at most two fraction digits, no exponent, no inf/nan/hex  *)
(*   int         an integer                                                *)
(***************************************************************************)
EXTENDS Integers, Sequences, FiniteSets, TLC

NUL == ""

\* double literal n of the source, in hundredths
D(n) == n * 100

\* the double -0.0, which strtod returns for "-0", "-0.0" and "-.0" and
\* operator<< prints as "-0": the one value of the input alphabet that is no
\* number of hundredths; it stands below every magnitude the model prints
NegZero == -1000000000

\* '\v', the vertical tab 0x0B; the string holds that one byte
VT == ""

\* std::isspace in the C locale: space, \t, \n, \v, \f, \r
isspace(c) == c \in {" ", "\t", "\n", VT, "\f", "\r"}

isdigit(c) == c \in {"0", "1", "2", "3", "4", "5", "6", "7", "8", "9"}

DigitVal(c) ==
  CASE c = "0" -> 0 [] c = "1" -> 1 [] c = "2" -> 2 [] c = "3" -> 3
    [] c = "4" -> 4 [] c = "5" -> 5 [] c = "6" -> 6 [] c = "7" -> 7
    [] c = "8" -> 8 [] c = "9" -> 9

\* *(b + i)
Get(b, i) == IF i >= 0 /\ i < Len(b) THEN b[i + 1] ELSE NUL

\* *(b + i) = '\0'
PutNul(b, i) == IF i >= 0 /\ i < Len(b) THEN [b EXCEPT ![i + 1] = NUL] ELSE b

\* fgets(buff, sizeof buff, file): the line and its terminator overwrite the
\* start of the buffer, the bytes after them are left as they were
fgets(b, s) == s \o <<NUL>> \o SubSeq(b, Len(s) + 2, Len(b))

\* index of the terminator of the C string at i
RECURSIVE StrEnd(_, _)
StrEnd(b, i) == IF Get(b, i) = NUL THEN i ELSE StrEnd(b, i + 1)

\* std::string(b + i): the chars from i up to the terminator
CStr(b, i) == SubSeq(b, i + 1, StrEnd(b, i))

\* std::string(b + i, b + j)
Range(b, i, j) == SubSeq(b, i + 1, j)

\* while( std::isspace(*p) ) p++
RECURSIVE SkipSpace(_, _)
SkipSpace(b, i) == IF isspace(Get(b, i)) THEN SkipSpace(b, i + 1) ELSE i

\* while( *p != 0 && !isspace(*p) ) p++
RECURSIVE SkipWord(_, _)
SkipWord(b, i) ==
  IF Get(b, i) = NUL \/ isspace(Get(b, i)) THEN i ELSE SkipWord(b, i + 1)

RECURSIVE SkipDigits(_, _)
SkipDigits(b, i) == IF isdigit(Get(b, i)) THEN SkipDigits(b, i + 1) ELSE i

\* value of the decimal digits in [i, j)
RECURSIVE DigitsValue(_, _, _)
DigitsValue(b, i, j) ==
  IF j <= i THEN 0 ELSE DigitsValue(b, i, j - 1) * 10 + DigitVal(Get(b, j - 1))

\* the first two fraction digits in [i, j), as hundredths
Hundredths(b, i, j) ==
  (IF i < j THEN DigitVal(Get(b, i)) * 10 ELSE 0)
  + (IF i + 1 < j THEN DigitVal(Get(b, i + 1)) ELSE 0)

\* strtoll(b + i, &end, 10): skip white space, optional sign, longest run of
\* digits; no digits: value 0 and end = the start pointer
strtoll(b, i) ==
  LET Digits(k, e, sg) ==
        IF e = k THEN [val |-> 0, end |-> i]
        ELSE [val |-> sg * DigitsValue(b, k, e), end |-> e]
      Signed(j, k) == Digits(k, SkipDigits(b, k), IF Get(b, j) = "-" THEN -1 ELSE 1)
      Start(j) == Signed(j, IF Get(b, j) \in {"-", "+"} THEN j + 1 ELSE j)
  IN  Start(SkipSpace(b, i))

\* strtod(b + i, &end): skip white space, optional sign, digits with an
\* optional radix point; no digit at all: value 0 and end = the start pointer
strtod(b, i) ==
  LET Val(sg, mag) == IF sg = -1 /\ mag = 0 THEN NegZero ELSE sg * mag
      Number(k, ie, dot, fe, sg) ==
        IF (ie - k) + (IF dot THEN fe - (ie + 1) ELSE 0) = 0
        THEN [val |-> 0, end |-> i]
        ELSE [val |-> Val(sg, DigitsValue(b, k, ie) * 100 + Hundredths(b, ie + 1, fe)),
              end |-> fe]
      Fraction(k, ie, dot, sg) ==
        Number(k, ie, dot, IF dot THEN SkipDigits(b, ie + 1) ELSE ie, sg)
      Whole(k, ie, sg) == Fraction(k, ie, Get(b, ie) = ".", sg)
      Signed(j, k) == Whole(k, SkipDigits(b, k), IF Get(b, j) = "-" THEN -1 ELSE 1)
      Start(j) == Signed(j, IF Get(b, j) \in {"-", "+"} THEN j + 1 ELSE j)
  IN  Start(SkipSpace(b, i))

\* strtoword: end = text first; then the next white-space delimited token,
\* end after it; no token: the empty word and end = text
strtoword(b, text) ==
  LET Word(start, stop) ==
        IF Get(b, text) = NUL \/ start = stop
        THEN [word |-> <<>>, end |-> text]
        ELSE [word |-> Range(b, start, stop), end |-> stop]
      From(start) == Word(start, SkipWord(b, start))
  IN  From(SkipSpace(b, text))

\* parse(char* line, std::string& s, char*& end): line is never null here
parse_string(b, line) ==
  LET Res(w) == [ok |-> TRUE, val |-> w.word, end |-> w.end]
  IN  Res(strtoword(b, line))

\* parse(const char* line, int& i, char*& end)
parse_int(b, line) ==
  LET Res(r) == [ok |-> TRUE, val |-> r.val, end |-> r.end]
  IN  Res(strtoll(b, line))

\* parse(const char* line, double& d, char*& end)
parse_double(b, line) ==
  LET Res(r) == [ok |-> TRUE, val |-> r.val, end |-> r.end]
  IN  Res(strtod(b, line))

\* char_cmp(a, b, length): the first `length` chars of the C string at a are
\* those of lit
RECURSIVE char_cmp_from(_, _, _, _)
char_cmp_from(b, a, lit, n) ==
  IF n = Len(lit) THEN TRUE
  ELSE IF Get(b, a + n) = NUL THEN FALSE
  ELSE IF Get(b, a + n) # lit[n + 1] THEN FALSE
  ELSE char_cmp_from(b, a, lit, n + 1)

char_cmp(b, a, lit) == IF Len(lit) = 0 THEN FALSE ELSE char_cmp_from(b, a, lit, 0)

\* while( std::isspace(*e) && e != s ) e--
RECURSIVE BackSpace(_, _, _)
BackSpace(b, e, s) ==
  IF isspace(Get(b, e)) /\ e # s THEN BackSpace(b, e - 1, s) ELSE e

\* trim(char* p): returns the new start and the buffer with the terminator
\* written
trim(b, p0) ==
  LET Cut(p, e2) == [b |-> PutNul(b, IF e2 # p THEN e2 + 1 ELSE e2), p |-> p]
      Back(p, e1) == Cut(p, BackSpace(b, e1, p))
      End(p, e0) == Back(p, IF e0 # p THEN e0 - 1 ELSE e0)
      Start(p) == End(p, StrEnd(b, p))
  IN  Start(SkipSpace(b, p0))

-----------------------------------------------------------------------------
(* The data model: every struct derives from Parse, whose flag is `parse`.  *)

\* Value<T>(v): Parse() leaves the flag false
Value(v) == [parse |-> FALSE, value |-> v]

uvw(u, v, w) == [parse |-> FALSE, u |-> u, v |-> v, w |-> w]

rgb(r, g, b) == [parse |-> FALSE, r |-> r, g |-> g, b |-> b]

xyz(x, y, z) == [parse |-> FALSE, x |-> x, y |-> y, z |-> z]

Model(base, gain) == [parse |-> FALSE, base |-> base, gain |-> gain]

Opacity(d, halo) == [parse |-> FALSE, d |-> d, halo |-> halo]

Spectral(file, factor) == [parse |-> FALSE, file |-> file, factor |-> factor]

Color ==
  [parse |-> FALSE, color |-> rgb(0, 0, 0), color_space |-> xyz(0, 0, 0),
   spectral |-> Spectral(<<>>, D(1))]

Texture ==
  [parse |-> FALSE, file |-> Value(<<>>),
   blendu |-> Value(TRUE), blendv |-> Value(TRUE), clamp |-> Value(FALSE),
   cc |-> Value(FALSE), bm |-> Value(0), boost |-> Value(D(60)),
   texres |-> Value(D(1)), mm |-> Model(0, 1),
   o |-> uvw(0, 0, 0), s |-> uvw(0, 0, 0), t |-> uvw(0, 0, 0),
   imfchan |-> Value("m")]

ReflectionSlots ==
  <<"sphere", "cube_top", "cube_bottom", "cube_front", "cube_back",
    "cube_left", "cube_right">>

Reflection ==
  [parse |-> FALSE, sphere |-> Texture, cube_top |-> Texture,
   cube_bottom |-> Texture, cube_front |-> Texture, cube_back |-> Texture,
   cube_left |-> Texture, cube_right |-> Texture]

Material ==
  [name |-> Value(<<>>),
   Kd |-> Color, Ka |-> Color, Ks |-> Color, Tf |-> Color,
   Ns |-> Value(0),
   map_Kd |-> Texture, map_Ka |-> Texture, map_Ks |-> Texture,
   map_Ns |-> Texture, map_Pr |-> Texture, map_Pm |-> Texture,
   map_Ps |-> Texture, map_d |-> Texture, map_bump |-> Texture,
   map_Po |-> Texture,
   sharpness |-> Value(D(60)),
   d |-> Opacity(D(1), FALSE),
   disp |-> Texture, decal |-> Texture, bump |-> Texture,
   illum |-> Value(0), Ni |-> Value(0), Tr |-> Value(D(1)),
   refl |-> Reflection,
   Ke |-> Color,
   Pr |-> Value(0), Pm |-> Value(0), Ps |-> Value(0), Pc |-> Value(0),
   Pcr |-> Value(0), aniso |-> Value(0), anisor |-> Value(0),
   map_Ke |-> Texture, norm |-> Texture, map_RMA |-> Texture,
   map_ORM |-> Texture]

\* the members of Material by type
ValueFields ==
  {"name", "Ns", "sharpness", "illum", "Ni", "Tr", "Pr", "Pm", "Ps", "Pc",
   "Pcr", "aniso", "anisor"}

ColorFields == {"Kd", "Ka", "Ks", "Tf", "Ke"}

TextureFields ==
  {"map_Kd", "map_Ka", "map_Ks", "map_Ns", "map_Pr", "map_Pm", "map_Ps",
   "map_d", "map_bump", "map_Po", "disp", "decal", "bump", "map_Ke", "norm",
   "map_RMA", "map_ORM"}

MaterialFields == ValueFields \cup ColorFields \cup TextureFields \cup {"d", "refl"}

\* the assignment without the suppression flag: parse = copy.parse
Parse_assign_copy(copy, active) == copy.parse

\* Parse::operator=(const Parse& copy): parse = active ? copy.parse : false.
\* The implicit copy assignment of every struct assigns its Parse base with
\* this operator and its members with theirs.
Parse_assign(copy, active) == IF active THEN copy.parse ELSE FALSE

Leaf_assign(copy, active) == [copy EXCEPT !.parse = Parse_assign(copy, active)]

Color_assign(copy, active) ==
  [parse |-> Parse_assign(copy, active),
   color |-> Leaf_assign(copy.color, active),
   color_space |-> Leaf_assign(copy.color_space, active),
   spectral |-> Leaf_assign(copy.spectral, active)]

Texture_assign(copy, active) ==
  [parse |-> Parse_assign(copy, active),
   file |-> Leaf_assign(copy.file, active),
   blendu |-> Leaf_assign(copy.blendu, active),
   blendv |-> Leaf_assign(copy.blendv, active),
   clamp |-> Leaf_assign(copy.clamp, active),
   cc |-> Leaf_assign(copy.cc, active),
   bm |-> Leaf_assign(copy.bm, active),
   boost |-> Leaf_assign(copy.boost, active),
   texres |-> Leaf_assign(copy.texres, active),
   mm |-> Leaf_assign(copy.mm, active),
   o |-> Leaf_assign(copy.o, active),
   s |-> Leaf_assign(copy.s, active),
   t |-> Leaf_assign(copy.t, active),
   imfchan |-> Leaf_assign(copy.imfchan, active)]

Reflection_assign(copy, active) ==
  [parse |-> Parse_assign(copy, active),
   sphere |-> Texture_assign(copy.sphere, active),
   cube_top |-> Texture_assign(copy.cube_top, active),
   cube_bottom |-> Texture_assign(copy.cube_bottom, active),
   cube_front |-> Texture_assign(copy.cube_front, active),
   cube_back |-> Texture_assign(copy.cube_back, active),
   cube_left |-> Texture_assign(copy.cube_left, active),
   cube_right |-> Texture_assign(copy.cube_right, active)]

\* Material& Material::operator=(const Material&), member by member
Material_assign(copy, active) ==
  [name |-> Leaf_assign(copy.name, active),
   Kd |-> Color_assign(copy.Kd, active),
   Ka |-> Color_assign(copy.Ka, active),
   Ks |-> Color_assign(copy.Ks, active),
   Tf |-> Color_assign(copy.Tf, active),
   Ns |-> Leaf_assign(copy.Ns, active),
   map_Kd |-> Texture_assign(copy.map_Kd, active),
   map_Ka |-> Texture_assign(copy.map_Ka, active),
   map_Ks |-> Texture_assign(copy.map_Ks, active),
   map_Ns |-> Texture_assign(copy.map_Ns, active),
   map_Pr |-> Texture_assign(copy.map_Pr, active),
   map_Pm |-> Texture_assign(copy.map_Pm, active),
   map_Ps |-> Texture_assign(copy.map_Ps, active),
   map_d |-> Texture_assign(copy.map_d, active),
   map_bump |-> Texture_assign(copy.map_bump, active),
   map_Po |-> Texture_assign(copy.map_Po, active),
   sharpness |-> Leaf_assign(copy.sharpness, active),
   d |-> Leaf_assign(copy.d, active),
   disp |-> Texture_assign(copy.disp, active),
   decal |-> Texture_assign(copy.decal, active),
   bump |-> Texture_assign(copy.bump, active),
   illum |-> Leaf_assign(copy.illum, active),
   Ni |-> Leaf_assign(copy.Ni, active),
   Tr |-> Leaf_assign(copy.Tr, active),
   refl |-> Reflection_assign(copy.refl, active),
   Ke |-> Color_assign(copy.Ke, active),
   Pr |-> Leaf_assign(copy.Pr, active),
   Pm |-> Leaf_assign(copy.Pm, active),
   Ps |-> Leaf_assign(copy.Ps, active),
   Pc |-> Leaf_assign(copy.Pc, active),
   Pcr |-> Leaf_assign(copy.Pcr, active),
   aniso |-> Leaf_assign(copy.aniso, active),
   anisor |-> Leaf_assign(copy.anisor, active),
   map_Ke |-> Texture_assign(copy.map_Ke, active),
   norm |-> Texture_assign(copy.norm, active),
   map_RMA |-> Texture_assign(copy.map_RMA, active),
   map_ORM |-> Texture_assign(copy.map_ORM, active)]

\* Value<T>& Value<T>::operator=(const T& copy): parsed(); value = copy
Value_set(v) == [parse |-> TRUE, value |-> v]

-----------------------------------------------------------------------------
(* The decoders.  Each takes the buffer b, the pointer `line`, the caller's *)
(* `end` (left untouched on the paths of the code that do not assign it)    *)
(* and the field, and returns the field after the call, `end` after the     *)
(* call and the returned bool.                                              *)

\* parse(char* line, Value<double>& t, char*& end)
parse_Value_double(b, line, end, t) ==
  LET Res(r) ==
        IF ~r.ok THEN [ok |-> FALSE, f |-> [t EXCEPT !.parse = FALSE], end |-> end]
        ELSE [ok |-> TRUE, f |-> Value_set(r.val), end |-> r.end]
  IN  Res(parse_double(b, line))

\* parse(char* line, Value<int>& t, char*& end)
parse_Value_int(b, line, end, t) ==
  LET Res(r) ==
        IF ~r.ok THEN [ok |-> FALSE, f |-> [t EXCEPT !.parse = FALSE], end |-> end]
        ELSE [ok |-> TRUE, f |-> Value_set(r.val), end |-> r.end]
  IN  Res(parse_int(b, line))

\* parse(char* line, uvw& uvw, char*& end)
parse_uvw(b, line, end, t) ==
  LET Res(r1, r2, r3) ==
        IF ~r1.ok THEN [ok |-> FALSE, f |-> [t EXCEPT !.parse = FALSE], end |-> end]
        ELSE IF ~r2.ok
        THEN [ok |-> TRUE, end |-> r1.end,
              f |-> [parse |-> TRUE, u |-> r1.val, v |-> r1.val, w |-> r1.val]]
        ELSE [ok |-> TRUE, end |-> IF r3.ok THEN r3.end ELSE end,
              f |-> [parse |-> TRUE, u |-> r1.val, v |-> r2.val,
                     w |-> IF r3.ok THEN r3.val ELSE r1.val]]
      Third(r1, r2) == Res(r1, r2, parse_double(b, r2.end))
      Second(r1) == Third(r1, parse_double(b, r1.end))
  IN  Second(parse_double(b, line))

\* parse(char* line, rgb& rgb, char*& end)
parse_rgb(b, line, end, t) ==
  LET Res(r1, r2, r3) ==
        IF ~r1.ok THEN [ok |-> FALSE, f |-> [t EXCEPT !.parse = FALSE], end |-> end]
        ELSE IF ~r2.ok
        THEN [ok |-> TRUE, end |-> r1.end,
              f |-> [parse |-> TRUE, r |-> r1.val, g |-> r1.val, b |-> r1.val]]
        ELSE [ok |-> TRUE, end |-> IF r3.ok THEN r3.end ELSE end,
              f |-> [parse |-> TRUE, r |-> r1.val, g |-> r2.val,
                     b |-> IF r3.ok THEN r3.val ELSE r1.val]]
      Third(r1, r2) == Res(r1, r2, parse_double(b, r2.end))
      Second(r1) == Third(r1, parse_double(b, r1.end))
  IN  Second(parse_double(b, line))

\* parse(char* line, xyz& xyz, char*& end)
parse_xyz(b, line, end, t) ==
  LET Res(r1, r2, r3) ==
        IF ~r1.ok THEN [ok |-> FALSE, f |-> [t EXCEPT !.parse = FALSE], end |-> end]
        ELSE IF ~r2.ok
        THEN [ok |-> TRUE, end |-> r1.end,
              f |-> [parse |-> TRUE, x |-> r1.val, y |-> r1.val, z |-> r1.val]]
        ELSE [ok |-> TRUE, end |-> IF r3.ok THEN r3.end ELSE end,
              f |-> [parse |-> TRUE, x |-> r1.val, y |-> r2.val,
                     z |-> IF r3.ok THEN r3.val ELSE r1.val]]
      Third(r1, r2) == Res(r1, r2, parse_double(b, r2.end))
      Second(r1) == Third(r1, parse_double(b, r1.end))
  IN  Second(parse_double(b, line))

\* parse(char* line, Model& mm, char*& end)
parse_Model(b, line, end, t) ==
  LET Res(r1, r2) ==
        IF ~r1.ok THEN [ok |-> FALSE, f |-> [t EXCEPT !.parse = FALSE], end |-> end]
        ELSE [ok |-> TRUE, end |-> IF r2.ok THEN r2.end ELSE r1.end,
              f |-> [parse |-> TRUE, base |-> r1.val,
                     gain |-> IF r2.ok THEN r2.val ELSE t.gain]]
      Second(r1) == Res(r1, parse_int(b, r1.end))
  IN  Second(parse_int(b, line))

\* parse(char* line, Spectral& spectral, char*& end)
parse_Spectral(b, line, end, t) ==
  LET Res(r1, r2) ==
        IF ~r1.ok THEN [ok |-> FALSE, f |-> [t EXCEPT !.parse = FALSE], end |-> end]
        ELSE [ok |-> TRUE, end |-> IF r2.ok THEN r2.end ELSE r1.end,
              f |-> [parse |-> TRUE, file |-> r1.val,
                     factor |-> IF r2.ok THEN r2.val ELSE t.factor]]
      Second(r1) == Res(r1, parse_double(b, r1.end))
  IN  Second(parse_string(b, line))

kw_spectral == <<"s", "p", "e", "c", "t", "r", "a", "l", " ">>
kw_xyz == <<"x", "y", "z", " ">>

\* parse(char* line, Color& color, char*& end)
parse_Color(b, line, end, t) ==
  LET Res(r, m) ==
        [ok |-> r.ok, end |-> r.end, f |-> [t EXCEPT ![m] = r.f, !.parse = r.ok]]
  IN  IF char_cmp(b, line, kw_spectral)
      THEN Res(parse_Spectral(b, line + 9, end, t.spectral), "spectral")
      ELSE IF char_cmp(b, line, kw_xyz)
      THEN Res(parse_xyz(b, line + 4, end, t.color_space), "color_space")
      ELSE Res(parse_rgb(b, line, end, t.color), "color")

kw_halo == <<"h", "a", "l", "o", " ">>

\* the while loop of parse(char*, Opacity&, char*&) from pointer p; `done`
\* tells whether the loop returned from inside
RECURSIVE Opacity_scan(_, _, _, _)
Opacity_scan(b, p, end, t) ==
  LET Halo(r) ==
        IF r.ok
        THEN [done |-> TRUE, end |-> r.end,
              f |-> [parse |-> TRUE, d |-> r.val, halo |-> TRUE]]
        ELSE Opacity_scan(b, p + 2, end, t)
  IN  IF Get(b, p) = NUL THEN [done |-> FALSE, f |-> t, end |-> end]
      ELSE IF Get(b, p) # "-" THEN Opacity_scan(b, p + 1, end, t)
      ELSE IF char_cmp(b, p + 1, kw_halo) THEN Halo(parse_double(b, p + 6))
      ELSE Opacity_scan(b, p + 2, end, t)

\* parse(char* line, Opacity& opacity, char*& end)
parse_Opacity(b, line, end, t) ==
  LET Res(sc, r) ==
        IF sc.done THEN [ok |-> TRUE, f |-> sc.f, end |-> sc.end]
        ELSE IF r.ok
        THEN [ok |-> TRUE, end |-> r.end, f |-> [sc.f EXCEPT !.d = r.val, !.parse = TRUE]]
        ELSE [ok |-> FALSE, end |-> sc.end, f |-> [sc.f EXCEPT !.parse = FALSE]]
  IN  Res(Opacity_scan(b, line, end, [t EXCEPT !.parse = FALSE]), parse_double(b, line))

kw_blendu == <<"b", "l", "e", "n", "d", "u", " ">>
kw_blendv == <<"b", "l", "e", "n", "d", "v", " ">>
kw_clamp == <<"c", "l", "a", "m", "p", " ">>
kw_boost == <<"b", "o", "o", "s", "t", " ">>
kw_mm == <<"m", "m", " ">>
kw_o == <<"o", " ">>
kw_s == <<"s", " ">>
kw_t == <<"t", " ">>
kw_bm == <<"b", "m", " ">>
kw_imfchan == <<"i", "m", "f", "c", "h", "a", "n", " ">>
str_on == <<"o", "n">>
str_off == <<"o", "f", "f">>

\* the body shared by -blendu, -blendv and -clamp: temp == "on" sets true,
\* temp == "off" sets false, anything else leaves the flag alone
OnOff(v, temp) ==
  IF temp = str_on THEN Value_set(TRUE)
  ELSE IF temp = str_off THEN Value_set(FALSE)
  ELSE v

\* temp.find_first_of("rgbmlz") != std::string::npos
find_first_of_rgbmlz(temp) ==
  \E i \in 1..Len(temp) : temp[i] \in {"r", "g", "b", "m", "l", "z"}

\* the while loop of parse(char*, Texture&, char*&) from pointer p, with the
\* current `end`, texture and isParsed
RECURSIVE Texture_scan(_, _, _, _, _)
Texture_scan(b, p, end, t, isParsed) ==
  LET q == p + 1
      Skip == Texture_scan(b, q + 1, end, t, isParsed)
      \* -blendu, -blendv, -clamp: char_cmp(...) && parse(p + n, temp, end)
      Switch(r, m) ==
        IF r.ok
        THEN Texture_scan(b, r.end, r.end, [t EXCEPT ![m] = OnOff(@, r.val)],
                          isParsed \/ r.val \in {str_on, str_off})
        ELSE Skip
      \* the flags decoded into a member: isParsed |= parse(p + n, member, end)
      Member(r, m) ==
        Texture_scan(b, r.end, r.end, [t EXCEPT ![m] = r.f], isParsed \/ r.ok)
      Imfchan(r) ==
        IF r.ok /\ r.val # <<>>
        THEN IF find_first_of_rgbmlz(r.val)
             THEN Texture_scan(b, r.end, r.end,
                               [t EXCEPT !.imfchan = Value_set(r.val[1])], TRUE)
             ELSE Texture_scan(b, r.end, r.end, t, isParsed)
        ELSE Texture_scan(b, q + 1, IF r.ok THEN r.end ELSE end, t, isParsed)
  IN  IF Get(b, p) = NUL THEN [end |-> end, f |-> t, isParsed |-> isParsed]
      ELSE IF Get(b, p) # "-" THEN Texture_scan(b, p + 1, end, t, isParsed)
      ELSE IF char_cmp(b, q, kw_blendu) THEN Switch(parse_string(b, q + 7), "blendu")
      ELSE IF char_cmp(b, q, kw_blendv) THEN Switch(parse_string(b, q + 7), "blendv")
      ELSE IF char_cmp(b, q, kw_clamp) THEN Switch(parse_string(b, q + 6), "clamp")
      ELSE IF char_cmp(b, q, kw_boost)
      THEN Member(parse_Value_double(b, q + 6, end, t.boost), "boost")
      ELSE IF char_cmp(b, q, kw_mm) THEN Member(parse_Model(b, q + 3, end, t.mm), "mm")
      ELSE IF char_cmp(b, q, kw_o) THEN Member(parse_uvw(b, q + 2, end, t.o), "o")
      ELSE IF char_cmp(b, q, kw_s) THEN Member(parse_uvw(b, q + 2, end, t.s), "s")
      ELSE IF char_cmp(b, q, kw_t) THEN Member(parse_uvw(b, q + 2, end, t.t), "t")
      ELSE IF char_cmp(b, q, kw_bm)
      THEN Member(parse_Value_double(b, q + 3, end, t.bm), "bm")
      ELSE IF char_cmp(b, q, kw_imfchan) THEN Imfchan(parse_string(b, q + 8))
      ELSE Skip

\* parse(char* line, Texture& texture, char*& end): the flag scan, then the
\* file name is what trim(end) leaves, end being non-null for every caller
parse_Texture(b, line, end, t) ==
  LET Res(sc, tr, nm) ==
        [ok |-> sc.isParsed \/ nm # <<>>, b |-> tr.b, end |-> sc.end,
         f |-> [sc.f EXCEPT !.file = IF nm # <<>> THEN Value_set(nm) ELSE @,
                            !.parse = sc.isParsed \/ nm # <<>>]]
      Name(sc, tr) == Res(sc, tr, CStr(tr.b, tr.p))
      File(sc) == Name(sc, trim(b, sc.end))
  IN  File(Texture_scan(b, line, end, t, FALSE))

kw_type == <<"t", "y", "p", "e", " ">>
str_sphere == <<"s", "p", "h", "e", "r", "e">>
str_cube_top == <<"c", "u", "b", "e", "_", "t", "o", "p">>
str_cube_bottom == <<"c", "u", "b", "e", "_", "b", "o", "t", "t", "o", "m">>
str_cube_front == <<"c", "u", "b", "e", "_", "f", "r", "o", "n", "t">>
str_cube_back == <<"c", "u", "b", "e", "_", "b", "a", "c", "k">>
str_cube_left == <<"c", "u", "b", "e", "_", "l", "e", "f", "t">>
str_cube_right == <<"c", "u", "b", "e", "_", "r", "i", "g", "h", "t">>

ReflectionNames ==
  <<str_sphere, str_cube_top, str_cube_bottom, str_cube_front, str_cube_back,
    str_cube_left, str_cube_right>>

\* char_cmp(temp.c_str(), name) on a std::string
string_cmp(temp, lit) == char_cmp(temp, 0, lit)

\* the chain with every branch decoding into reflection.sphere
ReflectionSlot_sphere(temp, i) ==
  IF \E k \in 1..Len(ReflectionNames) : string_cmp(temp, ReflectionNames[k])
  THEN 1 ELSE 0

\* the chain of `if( char_cmp(temp.c_str(), "...") )`: the first slot whose
\* name is a prefix of temp, 0 when there is none
RECURSIVE ReflectionSlot(_, _)
ReflectionSlot(temp, i) ==
  IF i > Len(ReflectionNames) THEN 0
  ELSE IF string_cmp(temp, ReflectionNames[i]) THEN i
  ELSE ReflectionSlot(temp, i + 1)

\* the while loop of parse(char*, Reflection&) from pointer p
RECURSIVE Reflection_scan(_, _, _)
Reflection_scan(b, p, t) ==
  LET Res(r, sl) ==
        [ok |-> r.ok, b |-> r.b, f |-> [t EXCEPT ![sl] = r.f, !.parse = r.ok]]
      Slot(w, i) ==
        IF i = 0 THEN [ok |-> FALSE, b |-> b, f |-> t]
        ELSE Res(parse_Texture(b, w.end, w.end, t[ReflectionSlots[i]]),
                 ReflectionSlots[i])
      Type(w) == IF w.ok THEN Slot(w, ReflectionSlot(w.val, 1))
                 ELSE Reflection_scan(b, p + 2, t)
  IN  IF Get(b, p) = NUL THEN [ok |-> FALSE, b |-> b, f |-> t]
      ELSE IF Get(b, p) # "-" THEN Reflection_scan(b, p + 1, t)
      ELSE IF char_cmp(b, p + 1, kw_type) THEN Type(parse_string(b, p + 6))
      ELSE Reflection_scan(b, p + 2, t)

\* parse(char* line, Reflection& reflection)
parse_Reflection(b, line, t) == Reflection_scan(b, line, [t EXCEPT !.parse = FALSE])

-----------------------------------------------------------------------------
(* Load                                                                     *)

kw_newmtl == <<"n", "e", "w", "m", "t", "l">>

\* the else-if chain of Load::load after `newmtl`, in the order of the code:
\* the literal compared, the offset added to line, the member and the parse
\* overload its type selects
Keywords ==
  <<[kw |-> <<"K", "d", " ">>, off |-> 3, field |-> "Kd", kind |-> "Color"],
    [kw |-> <<"K", "a", " ">>, off |-> 3, field |-> "Ka", kind |-> "Color"],
    [kw |-> <<"K", "s", " ">>, off |-> 3, field |-> "Ks", kind |-> "Color"],
    [kw |-> <<"T", "f", " ">>, off |-> 3, field |-> "Tf", kind |-> "Color"],
    [kw |-> <<"N", "s", " ">>, off |-> 3, field |-> "Ns", kind |-> "double"],
    [kw |-> <<"m", "a", "p", "_", "K", "d", " ">>, off |-> 7, field |-> "map_Kd", kind |-> "Texture"],
    [kw |-> <<"m", "a", "p", "_", "K", "a", " ">>, off |-> 7, field |-> "map_Ka", kind |-> "Texture"],
    [kw |-> <<"m", "a", "p", "_", "K", "s", " ">>, off |-> 7, field |-> "map_Ks", kind |-> "Texture"],
    [kw |-> <<"m", "a", "p", "_", "N", "s", " ">>, off |-> 7, field |-> "map_Ns", kind |-> "Texture"],
    [kw |-> <<"m", "a", "p", "_", "P", "r", " ">>, off |-> 7, field |-> "map_Pr", kind |-> "Texture"],
    [kw |-> <<"m", "a", "p", "_", "P", "m", " ">>, off |-> 7, field |-> "map_Pm", kind |-> "Texture"],
    [kw |-> <<"m", "a", "p", "_", "P", "s", " ">>, off |-> 7, field |-> "map_Ps", kind |-> "Texture"],
    [kw |-> <<"m", "a", "p", "_", "d", " ">>, off |-> 6, field |-> "map_d", kind |-> "Texture"],
    [kw |-> <<"m", "a", "p", "_", "b", "u", "m", "p", " ">>, off |-> 9, field |-> "map_bump", kind |-> "Texture"],
    [kw |-> <<"m", "a", "p", "_", "P", "o", " ">>, off |-> 7, field |-> "map_Po", kind |-> "Texture"],
    [kw |-> <<"s", "h", "a", "r", "p", "n", "e", "s", "s", " ">>, off |-> 10, field |-> "sharpness", kind |-> "double"],
    [kw |-> <<"d", " ">>, off |-> 2, field |-> "d", kind |-> "Opacity"],
    [kw |-> <<"d", "i", "s", "p", " ">>, off |-> 5, field |-> "disp", kind |-> "Texture"],
    [kw |-> <<"d", "e", "c", "a", "l", " ">>, off |-> 6, field |-> "decal", kind |-> "Texture"],
    [kw |-> <<"b", "u", "m", "p", " ">>, off |-> 5, field |-> "bump", kind |-> "Texture"],
    [kw |-> <<"i", "l", "l", "u", "m", " ">>, off |-> 6, field |-> "illum", kind |-> "int"],
    [kw |-> <<"N", "i", " ">>, off |-> 3, field |-> "Ni", kind |-> "double"],
    [kw |-> <<"T", "r", " ">>, off |-> 3, field |-> "Tr", kind |-> "double"],
    [kw |-> <<"r", "e", "f", "l", " ">>, off |-> 5, field |-> "refl", kind |-> "Reflection"],
    [kw |-> <<"K", "e", " ">>, off |-> 3, field |-> "Ke", kind |-> "Color"],
    [kw |-> <<"P", "r", " ">>, off |-> 3, field |-> "Pr", kind |-> "double"],
    [kw |-> <<"P", "m", " ">>, off |-> 3, field |-> "Pm", kind |-> "double"],
    [kw |-> <<"P", "s", " ">>, off |-> 3, field |-> "Ps", kind |-> "double"],
    [kw |-> <<"P", "c", " ">>, off |-> 3, field |-> "Pc", kind |-> "double"],
    [kw |-> <<"P", "c", "r", " ">>, off |-> 4, field |-> "Pcr", kind |-> "double"],
    [kw |-> <<"a", "n", "i", "s", "o", " ">>, off |-> 6, field |-> "aniso", kind |-> "double"],
    [kw |-> <<"a", "n", "i", "s", "o", "r", " ">>, off |-> 7, field |-> "anisor", kind |-> "double"],
    [kw |-> <<"m", "a", "p", "_", "K", "e", " ">>, off |-> 7, field |-> "map_Ke", kind |-> "Texture"],
    [kw |-> <<"n", "o", "r", "m", " ">>, off |-> 5, field |-> "norm", kind |-> "Texture"],
    [kw |-> <<"m", "a", "p", "_", "R", "M", "A", " ">>, off |-> 8, field |-> "map_RMA", kind |-> "Texture"],
    [kw |-> <<"m", "a", "p", "_", "O", "R", "M", " ">>, off |-> 8, field |-> "map_ORM", kind |-> "Texture"]>>

\* the first entry of the chain from i on whose literal matches, 0 for none
RECURSIVE KeywordIndex(_, _, _)
KeywordIndex(b, line, i) ==
  IF i > Len(Keywords) THEN 0
  ELSE IF char_cmp(b, line, Keywords[i].kw) THEN i
  ELSE KeywordIndex(b, line, i + 1)

\* parse(line + off, m.<field>): the two-argument overloads pass `line` as end
parse_field(b, line, kind, t) ==
  LET Res(r) == [ok |-> r.ok, b |-> b, f |-> r.f]
      ResB(r) == [ok |-> r.ok, b |-> r.b, f |-> r.f]
  IN  CASE kind = "Color" -> Res(parse_Color(b, line, line, t))
        [] kind = "double" -> Res(parse_Value_double(b, line, line, t))
        [] kind = "int" -> Res(parse_Value_int(b, line, line, t))
        [] kind = "Opacity" -> Res(parse_Opacity(b, line, line, t))
        [] kind = "Texture" -> ResB(parse_Texture(b, line, line, t))
        [] kind = "Reflection" -> ResB(parse_Reflection(b, line, t))

\* Material Load::default_material() const: a fresh Material when mtl is
\* empty, else mtl.front() assigned while Parse::active is false
default_material(ms) ==
  IF ms = <<>> THEN Material ELSE Material_assign(ms[1], FALSE)

\* the `newmtl` branch: a copy of the default material is appended when the
\* last material has a parsed name, then the last material is named
newmtl(ms, material, nm) ==
  LET ms1 == IF ms[Len(ms)].name.parse THEN Append(ms, material) ELSE ms
  IN  [ms1 EXCEPT ![Len(ms1)].name = Value_set(nm)]

\* one iteration of the while loop of Load::load on the buffer b that fgets
\* has filled: the document (mtl, info) and the buffer after it
dispatch(b0, ms, inf, material) ==
  LET Comment(b, tc) ==
        IF ~ms[Len(ms)].name.parse
        THEN [mtl |-> ms, info |-> Append(inf, CStr(tc.b, tc.p)), b |-> tc.b]
        ELSE [mtl |-> ms, info |-> inf, b |-> b]
      Named(tn) ==
        [mtl |-> newmtl(ms, material, CStr(tn.b, tn.p)), info |-> inf, b |-> tn.b]
      Decoded(e, r) ==
        [mtl |-> [ms EXCEPT ![Len(ms)][e.field] = r.f], info |-> inf, b |-> r.b]
      Field(b, line, e) ==
        Decoded(e, parse_field(b, line + e.off, e.kind, ms[Len(ms)][e.field]))
      Keyword(b, line, k) ==
        IF k # 0 THEN Field(b, line, Keywords[k])
        ELSE [mtl |-> ms, info |-> inf, b |-> b]
      Line(b, line) ==
        IF Get(b, line) = "#" THEN Comment(b, trim(b, line + 1))
        ELSE IF char_cmp(b, line, kw_newmtl) THEN Named(trim(b, line + 7))
        ELSE Keyword(b, line, KeywordIndex(b, line, 1))
      Trimmed(tl) == Line(tl.b, tl.p)
  IN  Trimmed(trim(b0, 0))

\* return mtl.front().name.isParsed()
load_result(ms) == ms[1].name.parse

\* the while loop of Load::load over the lines fgets returns, from the
\* document doc = (mtl, info, buff); each iteration is evaluated before the
\* next one starts (the test r = doc only fixes that order)
RECURSIVE load_loop(_, _, _)
load_loop(doc, material, lines) ==
  LET Step(r) == IF r = doc THEN load_loop(doc, material, Tail(lines))
                 ELSE load_loop(r, material, Tail(lines))
  IN  IF lines = <<>> THEN doc
      ELSE Step(dispatch(fgets(doc.b, Head(lines) \o <<"\n">>), doc.mtl, doc.info,
                         material))

\* Load::load on a file that opens, from a Load whose mtl is ms: the
\* document when it returns
load(ms, lines) ==
  LET Seeded(m) == load_loop([mtl |-> <<m>>, info |-> <<>>, b |-> <<>>], m, lines)
  IN  Seeded(default_material(ms))

-----------------------------------------------------------------------------
(* The inputs: the caller's template and the text of the file.             *)

MaxLines == 3
MaxLoads == 2

\* the lines the files of Spec are made of (each is followed by a newline):
\* a header comment, two newmtl lines, a field line that decodes and one that
\* does not, a line with no known keyword, a line whose leading token begins
\* with newmtl and is not newmtl
DocLines ==
  {<<"#", " ", "h", "d", "r">>,
   <<"n", "e", "w", "m", "t", "l", " ", "a">>,
   <<"n", "e", "w", "m", "t", "l", " ", " ", "m", "2", " ">>,
   <<"m", "a", "p", "_", "K", "d", " ", "f", ".", "p", "n", "g">>,
   <<"m", "a", "p", "_", "K", "d", " ", "-", "b", "l", "e", "n", "d", "u", " ", "m", "a", "y", "b", "e">>,
   <<"j", "u", "n", "k", " ", "1">>,
   <<"n", "e", "w", "m", "t", "l", "x", " ", "f", "o", "o">>}

\* the lines the files of SpecParse are made of: values with one, two and
\* three components, numbers and non-numbers, flags known and unknown
ParseLines ==
  {<<"n", "e", "w", "m", "t", "l", " ", "a">>,
   <<"K", "d", " ", "5">>,
   <<"K", "d", " ", "2", " ", "4">>,
   <<"N", "s", " ", "7", ".", "5">>,
   <<"N", "s", " ", "a", "b", "c">>,
   <<"i", "l", "l", "u", "m", " ", "x">>,
   <<"d", " ", "-", "h", "a", "l", "o", " ", "0", ".", "6", "6">>,
   <<"d", " ", "0", ".", "5">>,
   <<"d", " ", "-", "h", "a", "l", "o", " ", "x">>,
   <<"m", "a", "p", "_", "K", "d", " ", "-", "z", "z", "z", " ", "1", " ", "2", " ", "3", " ", "c", "h", "r", "o", "m", "e", ".", "p", "n", "g">>,
   <<"m", "a", "p", "_", "K", "a", " ", "-", "s", " ", "5", " ", "-", "o", " ", "2", " ", "4", " ", "a", ".", "p", "n", "g">>}

\* the lines the files of SpecRefl are made of: a named material, refl lines
\* of two of the seven types, a type word that extends a name and one that
\* is no name
ReflLines ==
  {<<"n", "e", "w", "m", "t", "l", " ", "m", "a", "t">>,
   <<"r", "e", "f", "l", " ", "-", "t", "y", "p", "e", " ", "s", "p", "h", "e", "r", "e", " ", "-", "m", "m", " ", "0", " ", "1", " ", "c", "l", "o", "u", "d", "s", ".", "m", "p", "c">>,
   <<"r", "e", "f", "l", " ", "-", "t", "y", "p", "e", " ", "c", "u", "b", "e", "_", "t", "o", "p", " ", "t", "o", "p", ".", "p", "n", "g">>,
   <<"r", "e", "f", "l", " ", "-", "t", "y", "p", "e", " ", "s", "p", "h", "e", "r", "e", "f", "o", "o", " ", "x", ".", "p", "n", "g">>,
   <<"r", "e", "f", "l", " ", "-", "t", "y", "p", "e", " ", "b", "a", "l", "l", " ", "y", ".", "p", "n", "g">>}

\* the lines the files of SpecHeader are made of: comments with and without
\* text, a newmtl line, a field line, two lines whose leading token is no
\* keyword
HeaderLines ==
  {<<"#", " ", "h", "d", "r">>,
   <<"#">>,
   <<"n", "e", "w", "m", "t", "l", " ", "m", "a", "t">>,
   <<"K", "d", " ", "1", " ", "2", " ", "3">>,
   <<"j", "u", "n", "k", " ", "1">>,
   <<"n", "e", "w", "m", "t", "l", "x", " ", "f", "o", "o">>}

\* the lines the files of SpecTexture are made of: two flags in both orders,
\* -texres after a flag and alone, -imfchan with a channel and with other
\* words, -mm and spectral with and without their second field
TextureLines ==
  {<<"m", "a", "p", "_", "K", "d", " ", "-", "b", "m", " ", "2", " ", "-", "s", " ", "1", " ", "2", " ", "3", " ", "f", ".", "p", "n", "g">>,
   <<"m", "a", "p", "_", "K", "d", " ", "-", "s", " ", "1", " ", "2", " ", "3", " ", "-", "b", "m", " ", "2", " ", "f", ".", "p", "n", "g">>,
   <<"m", "a", "p", "_", "K", "d", " ", "-", "b", "m", " ", "2", " ", "-", "t", "e", "x", "r", "e", "s", " ", "5", "1", "2", " ", "f", ".", "p", "n", "g">>,
   <<"m", "a", "p", "_", "K", "d", " ", "-", "t", "e", "x", "r", "e", "s", " ", "5", "1", "2", " ", "f", ".", "p", "n", "g">>,
   <<"m", "a", "p", "_", "K", "a", " ", "-", "i", "m", "f", "c", "h", "a", "n", " ", "g", " ", "f", ".", "p", "n", "g">>,
   <<"m", "a", "p", "_", "K", "a", " ", "-", "i", "m", "f", "c", "h", "a", "n", " ", "x", "z", " ", "f", ".", "p", "n", "g">>,
   <<"m", "a", "p", "_", "K", "a", " ", "-", "i", "m", "f", "c", "h", "a", "n", " ", "b", "l", "u", "e", " ", "f", ".", "p", "n", "g">>,
   <<"m", "a", "p", "_", "K", "s", " ", "-", "m", "m", " ", "5", " ", "f", ".", "p", "n", "g">>,
   <<"m", "a", "p", "_", "K", "s", " ", "-", "m", "m", " ", "5", " ", "7", " ", "f", ".", "p", "n", "g">>,
   <<"K", "d", " ", "s", "p", "e", "c", "t", "r", "a", "l", " ", "f", ".", "r", "f", "l">>,
   <<"K", "d", " ", "s", "p", "e", "c", "t", "r", "a", "l", " ", "f", ".", "r", "f", "l", " ", "2", ".", "5">>}

\* the lines the files of SpecTrace are made of: a colour in two
\* representations, a number, a negative zero, a texture with a flag and no
\* file, reflections of two types
TraceLines ==
  {<<"n", "e", "w", "m", "t", "l", " ", "m", "a", "t">>,
   <<"K", "d", " ", "1", " ", "2", " ", "3">>,
   <<"K", "d", " ", "x", "y", "z", " ", "4", " ", "5", " ", "6">>,
   <<"N", "s", " ", "7", ".", "5">>,
   <<"N", "s", " ", "-", "0">>,
   <<"m", "a", "p", "_", "K", "d", " ", "-", "b", "m", " ", "2">>,
   <<"r", "e", "f", "l", " ", "-", "t", "y", "p", "e", " ", "s", "p", "h", "e", "r", "e", " ", "a", ".", "p", "n", "g">>,
   <<"r", "e", "f", "l", " ", "-", "t", "y", "p", "e", " ", "c", "u", "b", "e", "_", "t", "o", "p", " ", "b", ".", "p", "n", "g">>}

\* README Method 2: Ka/Kd/Ks.color = rgb(0, 0, 1), assigned with
\* Parse::active true from temporaries whose flag is false
T_blue ==
  [Material EXCEPT !.Ka.color = rgb(0, 0, D(1)), !.Kd.color = rgb(0, 0, D(1)),
                   !.Ks.color = rgb(0, 0, D(1))]

\* README Method 3: a material that lookup() copied out of a loaded document,
\* its decoded members carrying their flag
T_lookup ==
  [Material EXCEPT
     !.name = Value_set(<<"b", "l", "u", "e">>),
     !.Ka = [Color EXCEPT !.parse = TRUE,
                          !.color = [parse |-> TRUE, r |-> D(1), g |-> 0, b |-> 0]],
     !.Ns = Value_set(D(5)),
     !.d = [parse |-> TRUE, d |-> 50, halo |-> TRUE],
     !.map_Kd = [Texture EXCEPT !.parse = TRUE,
                                !.file = Value_set(<<"b", ".", "p", "n", "g">>),
                                !.bm = Value_set(D(2))]]

Templates == {T_blue, T_lookup}

-----------------------------------------------------------------------------
(* The state machine.                                                       *)

VARIABLES
  tmpl,      \* the Material given to the constructor (Material() for Load())
  mtl,       \* Load::mtl
  info,      \* Load::info
  isopen,    \* Load::file != nullptr
  active,    \* Parse::active
  material,  \* the local `material` of load()
  buff,      \* the local `buff` of load()
  file,      \* the lines of the file at `path`, as far as they have been read
  pos,       \* the number of lines fgets has returned in the current load()
  pc,        \* "idle": outside load(); "reading": inside its while loop
  nload,     \* the number of load() calls that opened the file
  ret        \* the value the last load() returned

vars == <<tmpl, mtl, info, isopen, active, material, buff, file, pos, pc, nload, ret>>

\* Load() leaves mtl empty; Load(const Material&) copy-constructs the
\* template into mtl (the implicit copy constructor keeps every flag)
Init ==
  /\ \/ tmpl = Material /\ mtl = <<>>
     \/ tmpl \in Templates /\ mtl = <<tmpl>>
  /\ info = <<>>
  /\ isopen = FALSE
  /\ active = TRUE
  /\ material = Material
  /\ buff = <<>>
  /\ file = <<>>
  /\ pos = 0
  /\ pc = "idle"
  /\ nload = 0
  /\ ret = FALSE

\* load(path) when open() fails: close(), fopen fails, return false
LoadOpenFails ==
  /\ pc = "idle"
  /\ isopen' = FALSE
  /\ ret' = FALSE
  /\ UNCHANGED <<tmpl, mtl, info, active, material, buff, file, pos, pc, nload>>

\* load(path) up to the while loop: open, default_material(), mtl.clear(),
\* info.clear(), mtl.emplace_back(material), char buff[] = {0}
LoadBegins ==
  /\ pc = "idle"
  /\ nload < MaxLoads
  /\ isopen' = TRUE
  /\ material' = default_material(mtl)
  /\ active' = TRUE
  /\ mtl' = <<material'>>
  /\ info' = <<>>
  /\ buff' = <<>>
  /\ pos' = 0
  /\ pc' = "reading"
  /\ nload' = nload + 1
  /\ UNCHANGED <<tmpl, file, ret>>

\* one iteration of the while loop: fgets returns the next line of the file
\* (a line not read before is chosen here, on the first load only), the line
\* is trimmed and dispatched
LoadLine(Ls) ==
  /\ pc = "reading"
  /\ \/ pos < Len(file) /\ file' = file
     \/ pos = Len(file) /\ nload = 1 /\ Len(file) < MaxLines
        /\ \E l \in Ls : file' = Append(file, l)
  /\ LET Iteration(r) == mtl' = r.mtl /\ info' = r.info /\ buff' = r.b
     IN  Iteration(dispatch(fgets(buff, file'[pos + 1] \o <<"\n">>), mtl, info,
                            material))
  /\ pos' = pos + 1
  /\ UNCHANGED <<tmpl, isopen, active, material, pc, nload, ret>>

\* fgets returns null at end of file: return mtl.front().name.isParsed()
LoadReturns ==
  /\ pc = "reading"
  /\ pos = Len(file)
  /\ ret' = load_result(mtl)
  /\ pc' = "idle"
  /\ UNCHANGED <<tmpl, mtl, info, isopen, active, material, buff, file, pos, nload>>

Next == LoadOpenFails \/ LoadBegins \/ LoadLine(DocLines) \/ LoadReturns

Spec == Init /\ [][Next]_vars

NextParse == LoadOpenFails \/ LoadBegins \/ LoadLine(ParseLines) \/ LoadReturns

SpecParse == Init /\ [][NextParse]_vars

NextRefl == LoadOpenFails \/ LoadBegins \/ LoadLine(ReflLines) \/ LoadReturns

SpecRefl == Init /\ [][NextRefl]_vars

NextHeader == LoadOpenFails \/ LoadBegins \/ LoadLine(HeaderLines) \/ LoadReturns

SpecHeader == Init /\ [][NextHeader]_vars

NextTexture == LoadOpenFails \/ LoadBegins \/ LoadLine(TextureLines) \/ LoadReturns

SpecTexture == Init /\ [][NextTexture]_vars

NextTrace == LoadOpenFails \/ LoadBegins \/ LoadLine(TraceLines) \/ LoadReturns

SpecTrace == Init /\ [][NextTrace]_vars

-----------------------------------------------------------------------------
(* trim on its own: buff holds the caller's text, file[1] keeps the text    *)
(* as given, pos is the pointer trim returns.                               *)

MaxText == 4

TextChars == {" ", VT, "a", "b"}

\* the texts of at most MaxText chars
Texts == UNION {[1..n -> TextChars] : n \in 0..MaxText}

InitTrim ==
  /\ \E t \in Texts : file = <<t>> /\ buff = t
  /\ tmpl = Material /\ mtl = <<>> /\ info = <<>> /\ isopen = FALSE
  /\ active = TRUE /\ material = Material
  /\ pos = 0 /\ pc = "idle" /\ nload = 0 /\ ret = FALSE

\* p = trim(buff)
TrimCall ==
  /\ pc = "idle"
  /\ LET Returned(r) == buff' = r.b /\ pos' = r.p
     IN  Returned(trim(buff, 0))
  /\ pc' = "trimmed"
  /\ UNCHANGED <<tmpl, mtl, info, isopen, active, material, file, nload, ret>>

NextTrim == TrimCall

SpecTrim == InitTrim /\ [][NextTrim]_vars

-----------------------------------------------------------------------------
(* The file as the pieces fgets returns: every piece ends in a newline but  *)
(* the last one of a file that does not end in one.                         *)

\* the lines the files of SpecCursor are made of: a newmtl line with a name
\* and one without, and for the Opacity, the Reflection and the Texture decoder
\* a line that ends in `-` after a longer line that has a flag further on
CursorLines ==
  {<<"n", "e", "w", "m", "t", "l", " ", "l", "o", "n", "g", "n", "a", "m", "e">>,
   <<"n", "e", "w", "m", "t", "l">>,
   <<"N", "s", " ", "1", " ", "-", "h", "a", "l", "o", " ", "5">>,
   <<"d", " ", "-">>,
   <<"m", "a", "p", "_", "K", "d", " ", "x", " ", "-", "t", "y", "p", "e", " ", "c", "u", "b", "e", "_", "t", "o", "p", " ", "t", ".", "p", "n", "g">>,
   <<"r", "e", "f", "l", " ", "-">>,
   <<"N", "s", " ", "1", " ", "2", " ", "3", " ", "-", "b", "m", " ", "7">>,
   <<"m", "a", "p", "_", "K", "s", " ", "-">>}

\* a line with its newline, and the same line as the end of a file that has
\* no final newline
Pieces(Ls) == Ls \cup {l \o <<"\n">> : l \in Ls}

Terminated(c) == c # <<>> /\ c[Len(c)] = "\n"

\* the pieces read so far are not the whole file
Continues(f) == IF f = <<>> THEN TRUE ELSE Terminated(f[Len(f)])

\* one iteration of the while loop: fgets copies the next piece of the file
\* into buff (a piece not read before is chosen here, on the first load only,
\* and only after a piece that ends in a newline), the line is trimmed and
\* dispatched
LoadPiece(Ls) ==
  /\ pc = "reading"
  /\ \/ pos < Len(file) /\ file' = file
     \/ pos = Len(file) /\ nload = 1 /\ Len(file) < MaxLines
        /\ Continues(file)
        /\ \E c \in Pieces(Ls) : file' = Append(file, c)
  /\ LET Iteration(r) == mtl' = r.mtl /\ info' = r.info /\ buff' = r.b
     IN  Iteration(dispatch(fgets(buff, file'[pos + 1]), mtl, info, material))
  /\ pos' = pos + 1
  /\ UNCHANGED <<tmpl, isopen, active, material, pc, nload, ret>>

NextCursor == LoadOpenFails \/ LoadBegins \/ LoadPiece(CursorLines) \/ LoadReturns

SpecCursor == Init /\ [][NextCursor]_vars

-----------------------------------------------------------------------------
(* Two threads, each with its own Load, and the one static Parse::active.   *)
(* Every variable but `active` is here a function of the thread: mtl[i] is  *)
(* the document of thread i's Load, material[i] the local of its            *)
(* default_material() and load(), tmpl[i] the caller's Material that        *)
(* lookup() assigns (README Method 3 then uses it as a template), pc[i] the *)
(* function the thread is in, pos[i] the number of members the copy         *)
(* assignment in progress has assigned, nload[i] the number of              *)
(* default_material() calls the thread has completed, info[i], isopen[i]    *)
(* and ret[i] the comments, the open file and the last load()'s value.      *)

Threads == {1, 2}

\* the threads that also call lookup()
Lookers == {1}

\* the members of Material in declaration order, the order in which the
\* implicit copy assignment assigns them
MemberOrder ==
  <<"name", "Kd", "Ka", "Ks", "Tf", "Ns", "map_Kd", "map_Ka", "map_Ks", "map_Ns",
    "map_Pr", "map_Pm", "map_Ps", "map_d", "map_bump", "map_Po", "sharpness", "d",
    "disp", "decal", "bump", "illum", "Ni", "Tr", "refl", "Ke", "Pr", "Pm", "Ps",
    "Pc", "Pcr", "aniso", "anisor", "map_Ke", "norm", "map_RMA", "map_ORM">>

\* the copy assignment of the member F of Material
Member_assign(F, copy, act) ==
  IF F \in ColorFields THEN Color_assign(copy, act)
  ELSE IF F \in TextureFields THEN Texture_assign(copy, act)
  ELSE IF F = "refl" THEN Reflection_assign(copy, act)
  ELSE Leaf_assign(copy, act)

\* the member carries provenance: assigning it depends on Parse::active
Flagged(F, v) == v # Member_assign(F, v, FALSE)

\* the copy assignment runs from member p + 1 up to and including the next
\* member of src that carries provenance (the members before it are assigned
\* the same whatever Parse::active is), or to the last member
RECURSIVE NextStop(_, _)
NextStop(src, p) ==
  IF p + 1 >= Len(MemberOrder) \/ Flagged(MemberOrder[p + 1], src[MemberOrder[p + 1]])
  THEN p + 1
  ELSE NextStop(src, p + 1)

\* dst after the members p + 1 .. k of src have been assigned to it while
\* Parse::active is act
RECURSIVE CopyTo(_, _, _, _, _)
CopyTo(dst, src, p, k, act) ==
  IF p >= k THEN dst
  ELSE CopyTo([dst EXCEPT ![MemberOrder[p + 1]] =
                 Member_assign(MemberOrder[p + 1], src[MemberOrder[p + 1]], act)],
              src, p + 1, k, act)

\* the files the threads load: a material with a shininess, and without
ThreadFiles ==
  {<<<<"n", "e", "w", "m", "t", "l", " ", "m", "a", "t">>, <<"N", "s", " ", "7", ".", "5">>>>,
   <<<<"n", "e", "w", "m", "t", "l", " ", "m", "a", "t">>>>}

\* each Load has loaded the first file: its document carries provenance on
\* name and Ns, the file is still open (load() does not close it) and load()
\* returned true
InitThreads ==
  /\ mtl = [i \in Threads |->
             load(<<>>, <<<<"n", "e", "w", "m", "t", "l", " ", "m", "a", "t">>,
                          <<"N", "s", " ", "7", ".", "5">>>>).mtl]
  /\ material = [i \in Threads |-> Material]
  /\ tmpl = [i \in Threads |-> Material]
  /\ pc = [i \in Threads |-> "idle"]
  /\ pos = [i \in Threads |-> 0]
  /\ nload = [i \in Threads |-> 0]
  /\ active = TRUE
  /\ info = [i \in Threads |-> <<>>]
  /\ isopen = [i \in Threads |-> TRUE]
  /\ ret = [i \in Threads |-> TRUE]
  /\ buff = <<>> /\ file = <<>>

\* lookup(name, material) finds mtl.front() and starts `material = item`
LookupBegins(i) ==
  /\ pc[i] = "idle"
  /\ pc' = [pc EXCEPT ![i] = "lookup"]
  /\ pos' = [pos EXCEPT ![i] = 0]
  /\ UNCHANGED <<tmpl, mtl, info, isopen, active, material, buff, file, nload, ret>>

\* the next members of `material = item` (lookup) or of
\* `material = mtl.front()` (default_material) are assigned, each by
\* Parse::operator= reading Parse::active
AssignMembers(i) ==
  /\ pc[i] \in {"lookup", "default_material"}
  /\ pos[i] < Len(MemberOrder)
  /\ pos' = [pos EXCEPT ![i] = NextStop(mtl[i][1], pos[i])]
  /\ IF pc[i] = "lookup"
     THEN /\ tmpl' = [tmpl EXCEPT ![i] = CopyTo(@, mtl[i][1], pos[i], pos'[i], active)]
          /\ UNCHANGED material
     ELSE /\ material' = [material EXCEPT ![i] =
                            CopyTo(@, mtl[i][1], pos[i], pos'[i], active)]
          /\ UNCHANGED tmpl
  /\ UNCHANGED <<mtl, info, isopen, active, buff, file, pc, nload, ret>>

\* lookup returns true
LookupReturns(i) ==
  /\ pc[i] = "lookup"
  /\ pos[i] = Len(MemberOrder)
  /\ pc' = [pc EXCEPT ![i] = "idle"]
  /\ UNCHANGED <<tmpl, mtl, info, isopen, active, material, buff, file, pos, nload, ret>>

\* load() opens the file and calls default_material(): Material material;
\* mtl is not empty; Parse::active = false
DefaultMaterialBegins(i) ==
  /\ pc[i] = "idle"
  /\ nload[i] < MaxLoads
  /\ isopen' = [isopen EXCEPT ![i] = TRUE]
  /\ active' = FALSE
  /\ material' = [material EXCEPT ![i] = Material]
  /\ pc' = [pc EXCEPT ![i] = "default_material"]
  /\ pos' = [pos EXCEPT ![i] = 0]
  /\ UNCHANGED <<tmpl, mtl, info, buff, file, nload, ret>>

\* Parse::active = true; return material
DefaultMaterialReturns(i) ==
  /\ pc[i] = "default_material"
  /\ pos[i] = Len(MemberOrder)
  /\ active' = TRUE
  /\ pc' = [pc EXCEPT ![i] = "reading"]
  /\ nload' = [nload EXCEPT ![i] = @ + 1]
  /\ UNCHANGED <<tmpl, mtl, info, isopen, material, buff, file, pos, ret>>

\* the rest of load(): mtl.clear(), info.clear(), mtl.emplace_back(material),
\* the lines of the file, return mtl.front().name.isParsed()
LoadFile(i) ==
  /\ pc[i] = "reading"
  /\ \E f \in ThreadFiles :
       LET Doc(r) == /\ mtl' = [mtl EXCEPT ![i] = r.mtl]
                     /\ info' = [info EXCEPT ![i] = r.info]
                     /\ ret' = [ret EXCEPT ![i] = load_result(r.mtl)]
       IN  Doc(load_loop([mtl |-> <<material[i]>>, info |-> <<>>, b |-> <<>>],
                         material[i], f))
  /\ pc' = [pc EXCEPT ![i] = "idle"]
  /\ UNCHANGED <<tmpl, isopen, active, material, buff, file, pos, nload>>

NextThreads ==
  \/ \E i \in Lookers : LookupBegins(i) \/ LookupReturns(i)
  \/ \E i \in Threads : AssignMembers(i)
  \/ \E i \in Threads : DefaultMaterialBegins(i)
  \/ \E i \in Threads : DefaultMaterialReturns(i)
  \/ \E i \in Threads : LoadFile(i)

SpecThreads == InitThreads /\ [][NextThreads]_vars

-----------------------------------------------------------------------------
(* Vocabulary of the properties: what a line of text is, read off the text  *)
(* alone and not off the decoders.                                          *)

\* the text without its leading and trailing white space
RECURSIVE StripLeft(_)
StripLeft(t) == IF t # <<>> /\ isspace(Head(t)) THEN StripLeft(Tail(t)) ELSE t

RECURSIVE StripRight(_)
StripRight(t) ==
  IF t # <<>> /\ isspace(t[Len(t)]) THEN StripRight(SubSeq(t, 1, Len(t) - 1)) ELSE t

Stripped(t) == StripRight(StripLeft(t))

\* the text from its (n+1)-th char on
Drop(t, n) == SubSeq(t, n + 1, Len(t))

\* lit is a prefix of the text
StartsWith(t, lit) == Len(t) >= Len(lit) /\ SubSeq(t, 1, Len(lit)) = lit

\* the white-space delimited tokens of the text
RECURSIVE Tokens(_)
Tokens(t) ==
  LET u == StripLeft(t)
      n == SkipWord(u, 0)
  IN  IF u = <<>> THEN <<>> ELSE <<SubSeq(u, 1, n)>> \o Tokens(Drop(u, n))

\* the token is a number as a whole, and its value
IsNumber(tok) == tok # <<>> /\ ~isspace(tok[1]) /\ strtod(tok, 0).end = Len(tok)
NumberOf(tok) == strtod(tok, 0).val

\* the line takes the newmtl branch of load(): after its leading white space
\* come the six characters newmtl, whatever follows them
IsNewmtl(t) == StartsWith(StripLeft(t), kw_newmtl)

\* a newmtl line: the leading token of the line is the keyword newmtl
IsNewmtlLine(l) == Tokens(l) # <<>> /\ Tokens(l)[1] = kw_newmtl

\* the entry of Keywords whose keyword begins the line, 0 when the line is a
\* comment, a newmtl line or has no known keyword
FieldIndex(t) ==
  IF IsNewmtl(t) \/ StartsWith(StripLeft(t), <<"#">>) THEN 0
  ELSE LET hits == {i \in 1..Len(Keywords) : StartsWith(Stripped(t), Keywords[i].kw)}
       IN  IF hits = {} THEN 0 ELSE CHOOSE i \in hits : \A j \in hits : i <= j

IsFieldLine(t) == FieldIndex(t) # 0

\* the lines fgets has returned so far in the current load()
LinesRead == SubSeq(file, 1, pos)

\* inside load(), after at least one line
AfterLine == pc = "reading" /\ pos >= 1

\* load() has returned from a file that opened
Loaded == pc = "idle" /\ isopen

Last(ms) == ms[Len(ms)]

Max(a, b) == IF a >= b THEN a ELSE b

-----------------------------------------------------------------------------
(* C1 *)

\* the name the document records for a newmtl line
RecordedName(t) ==
  Last(dispatch(fgets(<<>>, t \o <<"\n">>), <<Material>>, <<>>, Material).mtl).name.value

C1_Count ==
  nload >= 1 =>
    LET nm == SelectSeq(LinesRead, IsNewmtlLine)
    IN  /\ Len(mtl) = Max(1, Len(nm))
        /\ \A i \in 1..Len(nm) : mtl[i].name = Value_set(RecordedName(nm[i]))

C1_Step ==
  (pc = "reading" /\ pos' = pos + 1) =>
    LET t == file'[pos']
    IN  /\ \A i \in 1..(Len(mtl) - 1) : mtl'[i] = mtl[i]
        /\ IsNewmtlLine(t) =>
             /\ Len(mtl') = (IF Len(SelectSeq(LinesRead, IsNewmtlLine)) = 0
                             THEN Len(mtl) ELSE Len(mtl) + 1)
             /\ Len(mtl') > Len(mtl) => mtl'[Len(mtl)] = mtl[Len(mtl)]
        /\ ~IsNewmtlLine(t) => Len(mtl') = Len(mtl)
        /\ IsFieldLine(t) =>
             \A f \in MaterialFields \ {Keywords[FieldIndex(t)].field} :
                Last(mtl')[f] = Last(mtl)[f]

\* C1: at every point of load() the materials are in source order, one per
\* newmtl line read (the first newmtl names the sentinel, each later one
\* appends exactly one material), max(1, number of newmtl lines) in all, and
\* a field line changes nothing but its own member of the last material.
C1_SourceOrder == [](C1_Count) /\ [][C1_Step]_vars

\* the number of materials alone, at every point of load()
C1_Number ==
  nload >= 1 => Len(mtl) = Max(1, Len(SelectSeq(LinesRead, IsNewmtlLine)))

\* what does hold: the same with the lines that take the newmtl branch in
\* the place of the newmtl lines
C1_BranchCount ==
  nload >= 1 =>
    LET nm == SelectSeq(LinesRead, IsNewmtl)
    IN  /\ Len(mtl) = Max(1, Len(nm))
        /\ \A i \in 1..Len(nm) : mtl[i].name = Value_set(RecordedName(nm[i]))

C1_BranchStep ==
  (pc = "reading" /\ pos' = pos + 1) =>
    LET t == file'[pos']
    IN  /\ \A i \in 1..(Len(mtl) - 1) : mtl'[i] = mtl[i]
        /\ IsNewmtl(t) =>
             /\ Len(mtl') = (IF Len(SelectSeq(LinesRead, IsNewmtl)) = 0
                             THEN Len(mtl) ELSE Len(mtl) + 1)
             /\ Len(mtl') > Len(mtl) => mtl'[Len(mtl)] = mtl[Len(mtl)]
        /\ ~IsNewmtl(t) => Len(mtl') = Len(mtl)
        /\ IsFieldLine(t) =>
             \A f \in MaterialFields \ {Keywords[FieldIndex(t)].field} :
                Last(mtl')[f] = Last(mtl)[f]

C1_BranchOrder == [](C1_BranchCount) /\ [][C1_BranchStep]_vars

\* two newmtl lines and then a field line, which reached the second
\* material only; load() has returned
C1_Witness ==
  /\ Loaded /\ nload = 1 /\ Len(file) = 3
  /\ IsNewmtlLine(file[1]) /\ IsNewmtlLine(file[2]) /\ IsFieldLine(file[3])
  /\ Len(mtl) = 2
  /\ mtl[2].map_Kd.file.parse /\ ~mtl[1].map_Kd.file.parse

-----------------------------------------------------------------------------
(* C2 *)

\* C2: when load() returns from a file that opened, it returned true exactly
\* if some material has a parsed name; it returned false if the file has no
\* newmtl line; and if it returned true every material has a parsed name.
C2_ReturnValue ==
  Loaded =>
    /\ ret <=> (\E i \in 1..Len(mtl) : mtl[i].name.parse)
    /\ SelectSeq(file, IsNewmtlLine) = <<>> => ~ret
    /\ ret => \A i \in 1..Len(mtl) : mtl[i].name.parse

\* the part about the files with no newmtl line alone
C2_NoNewmtl == (Loaded /\ SelectSeq(file, IsNewmtlLine) = <<>>) => ~ret

\* what does hold: the same with the lines that take the newmtl branch in
\* the place of the newmtl lines
C2_BranchReturn ==
  Loaded =>
    /\ ret <=> (\E i \in 1..Len(mtl) : mtl[i].name.parse)
    /\ SelectSeq(file, IsNewmtl) = <<>> => ~ret
    /\ ret => \A i \in 1..Len(mtl) : mtl[i].name.parse

\* load() returned true with two named materials
C2_Witness == Loaded /\ ret /\ Len(mtl) = 2 /\ mtl[2].name.parse

-----------------------------------------------------------------------------
(* C3 *)

\* the material the k-th line of the file applies to
Owner(k) == Max(1, Len(SelectSeq(SubSeq(file, 1, k), IsNewmtl)))

\* the field line t decodes: the value its parse overload returns
Decodes(t) ==
  LET e  == Keywords[FieldIndex(t)]
      tl == trim(fgets(<<>>, t \o <<"\n">>), 0)
  IN  parse_field(tl.b, tl.p + e.off, e.kind, Material[e.field]).ok

\* the template with every flag false
Seed == Material_assign(tmpl, FALSE)

\* the lines of the file with the keyword of member F that apply to material i
LinesFor(i, F) ==
  {k \in 1..Len(file) : /\ Owner(k) = i
                        /\ IsFieldLine(file[k])
                        /\ Keywords[FieldIndex(file[k])].field = F}

\* a member no line of the material touched is the template's, its flag false
C3_Untouched ==
  (Loaded /\ nload = 1) =>
    \A i \in 1..Len(mtl) : \A F \in MaterialFields \ {"name"} :
       LinesFor(i, F) = {} => mtl[i][F] = Seed[F]

\* a member with a line of the material that decoded has its flag true
C3_Decoded ==
  (Loaded /\ nload = 1) =>
    \A i \in 1..Len(mtl) : \A F \in MaterialFields \ {"name"} :
       (\E k \in LinesFor(i, F) : Decodes(file[k])) => mtl[i][F].parse

\* C3: after the first load() of a Load built from template T, for every
\* material M and member F: with no line of F's keyword applied to M, M.F has
\* provenance false and the value of T.F; with such a line decoded
\* successfully, M.F has provenance true.
C3_TemplateSeeding == C3_Untouched /\ C3_Decoded

-----------------------------------------------------------------------------
(* C4 *)

AnyParsed_Color(c) ==
  c.parse \/ c.color.parse \/ c.color_space.parse \/ c.spectral.parse

AnyParsed_Texture(t) ==
  \/ t.parse
  \/ \E f \in (DOMAIN t) \ {"parse"} : t[f].parse

AnyParsed_Reflection(r) ==
  \/ r.parse
  \/ \E i \in 1..Len(ReflectionSlots) : AnyParsed_Texture(r[ReflectionSlots[i]])

\* some flag of the material, at any depth, is true
AnyParsed(m) ==
  \/ \E f \in ValueFields : m[f].parse
  \/ \E f \in ColorFields : AnyParsed_Color(m[f])
  \/ \E f \in TextureFields : AnyParsed_Texture(m[f])
  \/ m.d.parse
  \/ AnyParsed_Reflection(m.refl)

\* the materials have the same values, whatever their flags
SameValues(m, t) == Material_assign(m, FALSE) = Material_assign(t, FALSE)

\* no line has been decoded since the Load was constructed
NothingDecoded == nload = 0 \/ (nload = 1 /\ pc = "reading" /\ pos = 0)

\* C4: from the construction of a Load from a template on, and as long as
\* no line has been decoded, the first material of the document has
\* provenance false on every field and the values of the template: the
\* template's provenance never shows as parsed in the document.
C4_NoTemplateProvenance ==
  (NothingDecoded /\ mtl # <<>>) =>
    ~AnyParsed(mtl[1]) /\ SameValues(mtl[1], tmpl)

\* what does hold: the constructor stores the template with its flags, and
\* the first load() that opens its file replaces it, before it decodes a
\* line, by one material with every flag false and the template's values
SeedAtLoad ==
  /\ (nload = 0 /\ mtl # <<>>) => mtl = <<tmpl>>
  /\ (nload = 1 /\ pc = "reading" /\ pos = 0) =>
       /\ Len(mtl) = 1
       /\ ~AnyParsed(mtl[1])
       /\ SameValues(mtl[1], tmpl)

-----------------------------------------------------------------------------
(* C5 .. C10: what a line decodes to, stated on its tokens.                 *)

\* the line just read, its tokens, its entry of Keywords and its target
ThisLine == file[pos]
ThisEntry == Keywords[FieldIndex(ThisLine)]
Target == Last(mtl)[ThisEntry.field]

\* the flag -kw as a token
Dash(kw) == <<"-">> \o Stripped(kw)

\* the values of the numeric tokens that follow each other from index j on
RECURSIVE Numbers(_, _)
Numbers(toks, j) ==
  IF j <= Len(toks) /\ IsNumber(toks[j])
  THEN <<NumberOf(toks[j])>> \o Numbers(toks, j + 1)
  ELSE <<>>

\* the token begins with a number
StartsNumber(tok) == strtod(tok, 0).end > 0

-----------------------------------------------------------------------------
(* C5 *)

\* the remainder of a newmtl line after the keyword, trimmed
NamedBy(t) == Stripped(Drop(StripLeft(t), Len(kw_newmtl)))

\* a line `newmtl <name>`
IsNewmtlName(t) ==
  /\ IsNewmtl(t)
  /\ Len(StripLeft(t)) > Len(kw_newmtl)
  /\ isspace(StripLeft(t)[Len(kw_newmtl) + 1])
  /\ NamedBy(t) # <<>>

\* C5: after a line `newmtl <name>` the name of the material it names is the
\* trimmed remainder of the line after the keyword, with provenance true.
C5_NameIsRemainder ==
  (AfterLine /\ IsNewmtlName(ThisLine)) =>
    Last(mtl).name = Value_set(NamedBy(ThisLine))

-----------------------------------------------------------------------------
(* C6 *)

\* a triple completed from one or two components
Broadcast(n) ==
  IF Len(n) = 1 THEN <<n[1], n[1], n[1]>> ELSE <<n[1], n[2], n[1]>>

\* a colour line with one or two components, rgb or after `xyz`
C6_Color ==
  (AfterLine /\ IsFieldLine(ThisLine) /\ ThisEntry.kind = "Color") =>
    LET toks == Tokens(ThisLine)
        isx  == Len(toks) >= 2 /\ toks[2] = Stripped(kw_xyz)
        j    == IF isx THEN 3 ELSE 2
        n    == Numbers(toks, j)
    IN  (Len(n) \in {1, 2} /\ j + Len(n) = Len(toks) + 1) =>
          IF isx
          THEN /\ Target.color_space.parse
               /\ <<Target.color_space.x, Target.color_space.y,
                    Target.color_space.z>> = Broadcast(n)
          ELSE /\ Target.color.parse
               /\ <<Target.color.r, Target.color.g, Target.color.b>> = Broadcast(n)

\* a texture line with -o, -s or -t followed by one or two components
C6_Texture ==
  (AfterLine /\ IsFieldLine(ThisLine) /\ ThisEntry.kind = "Texture") =>
    LET toks == Tokens(ThisLine)
    IN  \A j \in 2..Len(toks) :
          LET n == Numbers(toks, j + 1)
          IN  (/\ toks[j] \in {Dash(kw_o), Dash(kw_s), Dash(kw_t)}
               /\ \A i \in 2..Len(toks) : toks[i] = toks[j] => i = j
               /\ Len(n) \in {1, 2}) =>
                LET f == Target[toks[j][2]]
                IN  f.parse /\ <<f.u, f.v, f.w>> = Broadcast(n)

\* C6: a triple (rgb, xyz, uvw) given one component c1 decodes to
\* (c1, c1, c1), and given two components c1 c2 to (c1, c2, c1).
C6_TripleBroadcast == C6_Color /\ C6_Texture

-----------------------------------------------------------------------------
(* C7 *)

\* a recognized keyword line with a non-numeric token where its number is
\* expected
Malformed(t) ==
  /\ IsFieldLine(t)
  /\ LET toks == Tokens(t)
         kind == Keywords[FieldIndex(t)].kind
     IN  /\ Len(toks) >= 2
         /\ \/ kind \in {"double", "int"} /\ ~StartsNumber(toks[2])
            \/ /\ kind = "Color"
               /\ toks[2] # Stripped(kw_xyz)
               /\ toks[2] # Stripped(kw_spectral)
               /\ ~StartsNumber(toks[2])
            \/ /\ kind = "Color"
               /\ toks[2] = Stripped(kw_xyz)
               /\ Len(toks) >= 3 /\ ~StartsNumber(toks[3])
            \/ /\ kind = "Opacity"
               /\ toks[2] = Dash(kw_halo)
               /\ Len(toks) >= 3 /\ ~StartsNumber(toks[3])

C7_Step ==
  (pc = "reading" /\ pos' = pos + 1 /\ Malformed(file'[pos'])) =>
    LET F == Keywords[FieldIndex(file'[pos'])].field
    IN  /\ ~Decodes(file'[pos'])
        /\ Last(mtl')[F] = Last(mtl)[F]

\* C7: a recognized keyword line whose value is malformed (a non-numeric
\* token where a number is expected) fails to decode and leaves its target
\* field's value and provenance as they were before the line.
C7_MalformedKeepsField == [][C7_Step]_vars

-----------------------------------------------------------------------------
(* C8 *)

\* the sequence without its k-th element
RemoveAt(q, k) == SubSeq(q, 1, k - 1) \o SubSeq(q, k + 1, Len(q))

\* a recognized field line that is not malformed and decodes
WellFormed(t) == IsFieldLine(t) /\ ~Malformed(t) /\ Decodes(t)

\* the document load() builds from the lines, for the Load of this run
LoadOf(lines) == load(<<tmpl>>, lines)

\* the well-formed line just read decoded as in the file without any one of
\* the malformed lines before it
C8_Following ==
  (AfterLine /\ nload = 1 /\ WellFormed(ThisLine)) =>
    \A k \in 1..(pos - 1) :
       Malformed(file[k]) =>
         Target = Last(LoadOf(RemoveAt(LinesRead, k)).mtl)[ThisEntry.field]

\* load() returns what it returns for the file without any one of its
\* malformed lines, and has read every line
C8_Return ==
  (Loaded /\ nload = 1) =>
    /\ pos = Len(file)
    /\ \A k \in 1..Len(file) :
          Malformed(file[k]) => ret = load_result(LoadOf(RemoveAt(file, k)).mtl)

\* C8: a failed line decode never ends load(): every line is read, and a
\* malformed line changes neither the return value nor the decoding of any
\* following well-formed line.
C8_MalformedIsSkipped == C8_Following /\ C8_Return

-----------------------------------------------------------------------------
(* C9 *)

\* the flags of a texture line
TextureFlags ==
  {Dash(kw_blendu), Dash(kw_blendv), Dash(kw_clamp), Dash(kw_boost),
   Dash(kw_mm), Dash(kw_o), Dash(kw_s), Dash(kw_t), Dash(kw_bm),
   Dash(kw_imfchan), Dash(kw_type),
   <<"-", "c", "c">>, <<"-", "t", "e", "x", "r", "e", "s">>}

\* a texture line `<kw> -<unknown flag> <arguments> <filename>`
HasUnknownFlag(t) ==
  /\ IsFieldLine(t)
  /\ Keywords[FieldIndex(t)].kind = "Texture"
  /\ LET toks == Tokens(t)
     IN  /\ Len(toks) >= 3
         /\ toks[2][1] = "-" /\ toks[2] \notin TextureFlags
         /\ \A i \in 3..Len(toks) : toks[i][1] # "-"
         /\ ~IsNumber(toks[Len(toks)])

\* C9: an unknown -flag on a texture line is skipped with its arguments and
\* the file name is the last token of the line.
C9_UnknownFlagSkipped ==
  (AfterLine /\ HasUnknownFlag(ThisLine)) =>
    LET toks == Tokens(ThisLine)
    IN  Target.parse /\ Target.file = Value_set(toks[Len(toks)])

-----------------------------------------------------------------------------
(* C10 *)

\* C10: `d -halo f` decodes to {d = f, halo = true} and `d f` to
\* {d = f, halo = false}, whatever the field held before the line.
C10_Opacity ==
  (AfterLine /\ IsFieldLine(ThisLine) /\ ThisEntry.kind = "Opacity") =>
    LET toks == Tokens(ThisLine)
    IN  /\ (Len(toks) = 3 /\ toks[2] = Dash(kw_halo) /\ IsNumber(toks[3])) =>
              Target = [parse |-> TRUE, d |-> NumberOf(toks[3]), halo |-> TRUE]
        /\ (Len(toks) = 2 /\ IsNumber(toks[2])) =>
              Target = [parse |-> TRUE, d |-> NumberOf(toks[2]), halo |-> FALSE]

-----------------------------------------------------------------------------
(* C11 .. C20: texture and reflection lines, stated on their tokens.        *)

str_refl == <<"r", "e", "f", "l">>
Dash_cc == <<"-", "c", "c">>
Dash_texres == <<"-", "t", "e", "x", "r", "e", "s">>

\* the token is an integer as a whole, and its value
IsInt(tok) == tok # <<>> /\ ~isspace(tok[1]) /\ strtoll(tok, 0).end = Len(tok)
IntOf(tok) == strtoll(tok, 0).val

Switches == {Dash(kw_blendu), Dash(kw_blendv), Dash(kw_clamp), Dash_cc}
Floats == {Dash(kw_bm), Dash(kw_boost), Dash_texres}
Triples == {Dash(kw_o), Dash(kw_s), Dash(kw_t)}
Channels == {<<"r">>, <<"g">>, <<"b">>, <<"m">>, <<"l">>, <<"z">>}

\* the member of Texture a flag token names
FlagField(tok) ==
  CASE tok = Dash(kw_blendu) -> "blendu" [] tok = Dash(kw_blendv) -> "blendv"
    [] tok = Dash(kw_clamp) -> "clamp"   [] tok = Dash_cc -> "cc"
    [] tok = Dash(kw_bm) -> "bm"         [] tok = Dash(kw_boost) -> "boost"
    [] tok = Dash_texres -> "texres"     [] tok = Dash(kw_mm) -> "mm"
    [] tok = Dash(kw_o) -> "o"           [] tok = Dash(kw_s) -> "s"
    [] tok = Dash(kw_t) -> "t"           [] tok = Dash(kw_imfchan) -> "imfchan"

\* the number of tokens the flag that begins toks takes with its full arity,
\* itself included; 0 when toks does not begin with such a flag
FlagArity(toks) ==
  LET n == Len(toks)
  IN  IF n >= 2 /\ toks[1] \in Switches /\ toks[2] \in {str_on, str_off} THEN 2
      ELSE IF n >= 2 /\ toks[1] \in Floats /\ IsNumber(toks[2]) THEN 2
      ELSE IF n >= 3 /\ toks[1] = Dash(kw_mm) /\ IsInt(toks[2]) /\ IsInt(toks[3]) THEN 3
      ELSE IF /\ n >= 4 /\ toks[1] \in Triples
              /\ IsNumber(toks[2]) /\ IsNumber(toks[3]) /\ IsNumber(toks[4]) THEN 4
      ELSE IF n >= 2 /\ toks[1] = Dash(kw_imfchan) /\ toks[2] \in Channels THEN 2
      ELSE 0

\* the member the flag that begins toks gives, its arity being full
FlagValue(toks) ==
  IF toks[1] \in Switches THEN Value_set(toks[2] = str_on)
  ELSE IF toks[1] \in Floats THEN Value_set(NumberOf(toks[2]))
  ELSE IF toks[1] = Dash(kw_mm)
  THEN [parse |-> TRUE, base |-> IntOf(toks[2]), gain |-> IntOf(toks[3])]
  ELSE IF toks[1] \in Triples
  THEN [parse |-> TRUE, u |-> NumberOf(toks[2]), v |-> NumberOf(toks[3]),
        w |-> NumberOf(toks[4])]
  ELSE Value_set(toks[2][1])

\* toks is a texture text: flags with their full arity, then at most one
\* token that is a file name
RECURSIVE IsTextureText(_)
IsTextureText(toks) ==
  IF toks = <<>> THEN TRUE
  ELSE IF FlagArity(toks) > 0 THEN IsTextureText(Drop(toks, FlagArity(toks)))
  ELSE Len(toks) = 1 /\ toks[1][1] # "-" /\ Len(toks[1]) >= 2

\* the Texture a texture text makes of the Texture t: each flag's member has
\* the given value and provenance true, the file is the trailing token, the
\* members of flags not in the text are those of t
RECURSIVE TextureOf(_, _)
TextureOf(t, toks) ==
  IF toks = <<>> THEN [t EXCEPT !.parse = TRUE]
  ELSE IF FlagArity(toks) > 0
  THEN TextureOf([t EXCEPT ![FlagField(toks[1])] = FlagValue(toks)],
                 Drop(toks, FlagArity(toks)))
  ELSE [t EXCEPT !.file = Value_set(toks[Len(toks)]), !.parse = TRUE]

-----------------------------------------------------------------------------
(* C11 *)

\* the index of the type a line `refl -type <name> <texture text>` names, 0
\* when the line is not of that form
ReflType(l) ==
  LET toks == Tokens(l)
      hits == {i \in 1..Len(ReflectionNames) :
                 Len(toks) >= 3 /\ toks[1] = str_refl /\ toks[2] = Dash(kw_type)
                 /\ toks[3] = ReflectionNames[i]
                 /\ IsTextureText(Drop(toks, 3))}
  IN  IF hits = {} THEN 0 ELSE CHOOSE i \in hits : TRUE

\* reading a refl line of a type: the slot of the type becomes the Texture of
\* the line, the other six slots stay
C11_Step ==
  (pc = "reading" /\ pos' = pos + 1 /\ ReflType(file'[pos']) # 0) =>
    LET sl == ReflectionSlots[ReflType(file'[pos'])]
    IN  /\ Len(mtl') = Len(mtl)
        /\ Last(mtl').refl.parse
        /\ Last(mtl').refl[sl] =
             TextureOf(Last(mtl).refl[sl], Drop(Tokens(file'[pos']), 3))
        /\ \A o \in {ReflectionSlots[i] : i \in 1..Len(ReflectionSlots)} \ {sl} :
             Last(mtl').refl[o] = Last(mtl).refl[o]

\* the lines read so far that apply to the last material
LastLines == {k \in 1..pos : Owner(k) = Owner(pos)}

\* after refl lines of different types on one material, each slot named holds
\* the Texture of its own line
C11_Slots ==
  (/\ AfterLine
   /\ \A k \in LastLines :
        StartsWith(StripLeft(file[k]), str_refl) => ReflType(file[k]) # 0
   /\ \A j, k \in LastLines :
        (ReflType(file[j]) # 0 /\ ReflType(file[j]) = ReflType(file[k])) => j = k) =>
    \A k \in LastLines :
       ReflType(file[k]) # 0 =>
         Last(mtl).refl[ReflectionSlots[ReflType(file[k])]] =
           TextureOf(material.refl[ReflectionSlots[ReflType(file[k])]],
                     Drop(Tokens(file[k]), 3))

\* C11: a line `refl -type <name> <texture text>` with <name> one of the
\* seven type names decodes the texture text into exactly the slot of that
\* name and leaves the other six slots unchanged; over refl lines of different
\* types on one material each named slot holds the Texture of its own line.
C11_TypeDispatch == [](C11_Slots) /\ [][C11_Step]_vars

\* two refl lines of different types were read on one material: the sphere
\* slot holds clouds.mpc with mm = (0, 1), cube_top holds top.png
C11_Witness ==
  /\ AfterLine
  /\ Last(mtl).refl.parse
  /\ Last(mtl).refl.sphere.file = Value_set(<<"c", "l", "o", "u", "d", "s", ".", "m", "p", "c">>)
  /\ Last(mtl).refl.sphere.mm = [parse |-> TRUE, base |-> 0, gain |-> 1]
  /\ Last(mtl).refl.cube_top.file = Value_set(<<"t", "o", "p", ".", "p", "n", "g">>)
  /\ ~Last(mtl).refl.cube_left.parse

-----------------------------------------------------------------------------
(* C12 *)

\* the first non-white-space character of the line is #
IsComment(l) == StartsWith(StripLeft(l), <<"#">>)

\* the comment lines among the first n lines of the file that precede its
\* first newmtl line, in source order
HeaderComments(n) ==
  LET Before(k) == \A j \in 1..(k - 1) : ~IsNewmtlLine(file[j])
      Keep(k) == k <= n /\ IsComment(file[k]) /\ Before(k)
      RECURSIVE From(_)
      From(k) == IF k > n THEN <<>>
                 ELSE IF Keep(k) THEN <<Stripped(Drop(StripLeft(file[k]), 1))>> \o From(k + 1)
                 ELSE From(k + 1)
  IN  From(1)

\* inside and after load() the comment list is the header comments of the
\* lines read, one entry per line, in source order
C12_Entries ==
  (pc = "reading" \/ Loaded) =>
    /\ Len(info) = Len(HeaderComments(pos))
    /\ \A i \in 1..Len(info) :
         Len(HeaderComments(pos)[i]) >= 2 => info[i] = HeaderComments(pos)[i]

\* a comment line read after a material has been named changes no material
\* and adds no entry; a load that begins clears the comments
C12_Step ==
  /\ (pc = "reading" /\ pos' = pos + 1 /\ IsComment(file'[pos'])
      /\ \E j \in 1..pos : IsNewmtlLine(file[j])) => (mtl' = mtl /\ info' = info)
  /\ (pc = "idle" /\ pc' = "reading") => info' = <<>>

\* C12: after load() the comment list holds exactly one entry, in source
\* order, for every line whose first non-white-space character is # and that
\* precedes the first newmtl line; a # line after a material has been named
\* adds no entry and changes no material; the comments of an earlier load
\* are cleared when the next load begins.
C12_HeaderComments == [](C12_Entries) /\ [][C12_Step]_vars

-----------------------------------------------------------------------------
(* C13 *)

\* the leading token of the line is not #..., not newmtl and not the keyword
\* of a field
IsUnrecognized(l) ==
  /\ Tokens(l) # <<>>
  /\ Tokens(l)[1][1] # "#"
  /\ Tokens(l)[1] # kw_newmtl
  /\ \A i \in 1..Len(Keywords) : Tokens(l)[1] # Stripped(Keywords[i].kw)

C13_Step ==
  (pc = "reading" /\ pos' = pos + 1 /\ IsUnrecognized(file'[pos'])) =>
    (mtl' = mtl /\ info' = info)

\* C13: a line whose leading token is not #..., not newmtl and not a field
\* keyword leaves the materials and the header comments as they were.
C13_UnrecognizedIgnored == [][C13_Step]_vars

-----------------------------------------------------------------------------
(* C14 *)

\* a step of load() reads a line of a member of the given kind
Reads(kind) ==
  /\ pc = "reading" /\ pos' = pos + 1
  /\ IsFieldLine(file'[pos'])
  /\ Keywords[FieldIndex(file'[pos'])].kind = kind

\* the line the step reads: its tokens after the keyword, the member before
\* and after the step
ReadText == Drop(Tokens(file'[pos']), 1)
Before == Last(mtl)[Keywords[FieldIndex(file'[pos'])].field]
After == Last(mtl')[Keywords[FieldIndex(file'[pos'])].field]

\* no flag occurs twice in the text
DistinctFlags(toks) ==
  \A i, j \in 1..Len(toks) : (toks[i][1] = "-" /\ toks[i] = toks[j]) => i = j

C14_Step ==
  (Reads("Texture") /\ IsTextureText(ReadText) /\ DistinctFlags(ReadText)) =>
    After = TextureOf(Before, ReadText)

\* C14: a texture line of distinct flags with their full arity, in any
\* order, followed by a file name decodes to the Texture whose flagged
\* members have the given values with provenance true, whose other members
\* are as before and whose file is the trailing name: the same Texture for
\* every permutation of the flags.
C14_OrderIndependent == [][C14_Step]_vars

\* the same, over the flags the code has a branch for
C14_Decoded ==
  [][(/\ Reads("Texture")
      /\ \A i \in 1..Len(ReadText) : ReadText[i] \notin {Dash_cc, Dash_texres})
       => C14_Step]_vars

-----------------------------------------------------------------------------
(* C15: TraceMTL.h.  The text written to std::cout is a sequence of chars,  *)
(* std::endl being the char "\n".                                           *)

endl == <<"\n">>
sp == <<" ">>

DigitChar(d) == <<"0", "1", "2", "3", "4", "5", "6", "7", "8", "9">>[d + 1]

\* the decimal digits of a natural number
RECURSIVE Digits(_)
Digits(n) == IF n < 10 THEN <<DigitChar(n)>> ELSE Digits(n \div 10) \o <<DigitChar(n % 10)>>

\* std::cout << int
FormatInt(n) == IF n < 0 THEN <<"-">> \o Digits(-n) ELSE Digits(n)

\* std::cout << double at the default precision of six significant digits,
\* for the values below 10000 in magnitude, whose two decimals are all
\* printed: no trailing zeros, no radix point for a whole number
FormatDouble(h) ==
  LET Abs(a) ==
        Digits(a \div 100)
          \o (IF a % 100 = 0 THEN <<>>
              ELSE IF a % 10 = 0 THEN <<".", DigitChar((a % 100) \div 10)>>
              ELSE <<".", DigitChar((a % 100) \div 10), DigitChar(a % 10)>>)
  IN  IF h = NegZero THEN <<"-", "0">>
      ELSE IF h < 0 THEN <<"-">> \o Abs(-h) ELSE Abs(h)

\* std::cout << item.value for the T of the Value<T>
Format(fmt, v) ==
  CASE fmt = "string" -> v
    [] fmt = "char" -> <<v>>
    [] fmt = "int" -> FormatInt(v)
    [] fmt = "double" -> FormatDouble(v)

\* trace(const Value<T>& item, end_line)
trace_Value(item, fmt, end_line) ==
  IF ~item.parse THEN <<>>
  ELSE sp \o Format(fmt, item.value) \o (IF end_line THEN endl ELSE <<>>)

\* trace(label, const Value<bool>& item, end_line)
trace_bool(label, item, end_line) ==
  IF ~item.parse THEN <<>>
  ELSE sp \o label \o sp \o (IF item.value THEN str_on ELSE str_off)
         \o (IF end_line THEN endl ELSE <<>>)

\* trace(label, const Value<T>& item, end_line)
trace_label(label, item, fmt, end_line) ==
  IF ~item.parse THEN <<>>
  ELSE sp \o label \o sp \o Format(fmt, item.value) \o (IF end_line THEN endl ELSE <<>>)

\* trace(label, const xyz& item, end_line)
trace_xyz(label, item, end_line) ==
  IF ~item.parse THEN <<>>
  ELSE sp \o label \o sp \o Stripped(kw_xyz) \o sp \o FormatDouble(item.x) \o sp
         \o FormatDouble(item.y) \o sp \o FormatDouble(item.z)
         \o (IF end_line THEN endl ELSE <<>>)

\* trace(label, const rgb& item, end_line)
trace_rgb(label, item, end_line) ==
  IF ~item.parse THEN <<>>
  ELSE sp \o label \o sp \o FormatDouble(item.r) \o sp \o FormatDouble(item.g) \o sp
         \o FormatDouble(item.b) \o (IF end_line THEN endl ELSE <<>>)

\* trace(label, const Model& item, end_line)
trace_Model(label, item, end_line) ==
  IF ~item.parse THEN <<>>
  ELSE sp \o label \o sp \o FormatInt(item.base) \o sp \o FormatInt(item.gain)
         \o (IF end_line THEN endl ELSE <<>>)

\* trace(label, const uvw& item, end_line)
trace_uvw(label, item, end_line) ==
  IF ~item.parse THEN <<>>
  ELSE sp \o label \o sp \o FormatDouble(item.u) \o sp \o FormatDouble(item.v) \o sp
         \o FormatDouble(item.w) \o (IF end_line THEN endl ELSE <<>>)

\* trace(label, const Opacity& item)
trace_Opacity(label, item) ==
  IF ~item.parse THEN <<>>
  ELSE sp \o label \o (IF item.halo THEN sp \o Dash(kw_halo) ELSE <<>>)
         \o sp \o FormatDouble(item.d) \o endl

\* trace(label, const Spectral& item): no std::endl
trace_Spectral(label, item) ==
  IF ~item.parse THEN <<>>
  ELSE sp \o label \o sp \o Stripped(kw_spectral) \o sp \o item.file \o sp
         \o FormatDouble(item.factor)

\* trace(label, const Color& item)
trace_Color(label, item) ==
  IF ~item.parse THEN <<>>
  ELSE trace_rgb(label, item.color, TRUE) \o trace_xyz(label, item.color_space, TRUE)
         \o trace_Spectral(label, item.spectral)

\* trace(label, const Texture& item)
trace_Texture(label, item) ==
  IF ~item.parse THEN <<>>
  ELSE sp \o label
         \o trace_bool(Dash(kw_blendu), item.blendu, FALSE)
         \o trace_bool(Dash(kw_blendv), item.blendv, FALSE)
         \o trace_bool(Dash(kw_clamp), item.clamp, FALSE)
         \o trace_bool(Dash_cc, item.cc, FALSE)
         \o trace_label(Dash(kw_bm), item.bm, "double", FALSE)
         \o trace_label(Dash(kw_boost), item.boost, "double", FALSE)
         \o trace_label(Dash_texres, item.texres, "double", FALSE)
         \o trace_Model(Dash(kw_mm), item.mm, FALSE)
         \o trace_uvw(Dash(kw_o), item.o, FALSE)
         \o trace_uvw(Dash(kw_s), item.s, FALSE)
         \o trace_uvw(Dash(kw_t), item.t, FALSE)
         \o trace_label(Dash(kw_imfchan), item.imfchan, "char", FALSE)
         \o trace_Value(item.file, "string", TRUE)

\* the calls trace("sphere", item.sphere) .. trace("cube_right", ...) from
\* the i-th on
RECURSIVE trace_Slots(_, _)
trace_Slots(item, i) ==
  IF i > Len(ReflectionSlots) THEN <<>>
  ELSE trace_Texture(ReflectionNames[i], item[ReflectionSlots[i]]) \o trace_Slots(item, i + 1)

\* trace(label, const Reflection& item)
trace_Reflection(label, item) ==
  IF ~item.parse THEN <<>>
  ELSE sp \o label \o sp \o Dash(kw_type) \o trace_Slots(item, 1)

\* the members in the order trace(const Material&) prints them, after name
TraceOrder ==
  <<"Ka", "Kd", "Ks", "Ke", "map_Kd", "map_Ka", "map_Ks", "map_Ke", "map_Ns",
    "map_Pr", "map_Pm", "map_Ps", "map_d", "map_bump", "map_Po", "Ns", "Tf", "Tr",
    "sharpness", "d", "disp", "decal", "bump", "illum", "Ni", "refl", "Pr", "Pm",
    "Ps", "Pc", "Pcr", "aniso", "anisor", "norm", "map_RMA", "map_ORM">>

\* the entry of the member in Keywords: every label of trace(const
\* Material&) is the keyword of its member
EntryOf(F) == Keywords[CHOOSE k \in 1..Len(Keywords) : Keywords[k].field = F]

\* the overload of trace the type of the member selects
trace_member(e, item) ==
  CASE e.kind = "Color" -> trace_Color(Stripped(e.kw), item)
    [] e.kind = "Texture" -> trace_Texture(Stripped(e.kw), item)
    [] e.kind = "Opacity" -> trace_Opacity(Stripped(e.kw), item)
    [] e.kind = "Reflection" -> trace_Reflection(Stripped(e.kw), item)
    [] e.kind \in {"double", "int"} -> trace_label(Stripped(e.kw), item, e.kind, TRUE)

RECURSIVE trace_Members(_, _)
trace_Members(m, i) ==
  IF i > Len(TraceOrder) THEN <<>>
  ELSE trace_member(EntryOf(TraceOrder[i]), m[TraceOrder[i]]) \o trace_Members(m, i + 1)

\* trace(const Material& material)
trace_Material(m) ==
  endl \o trace_label(kw_newmtl, m.name, "string", TRUE) \o trace_Members(m, 1)

RECURSIVE trace_Materials(_)
trace_Materials(ms) ==
  IF ms = <<>> THEN <<>> ELSE trace_Material(Head(ms)) \o trace_Materials(Tail(ms))

RECURSIVE trace_Information(_)
trace_Information(inf) ==
  IF inf = <<>> THEN <<>> ELSE sp \o Head(inf) \o endl \o trace_Information(Tail(inf))

\* trace(Load& load)
trace_Load(ms, inf) == trace_Information(inf) \o trace_Materials(ms) \o endl

\* the lines of a text, each without its newline
RECURSIVE TextLines(_, _)
TextLines(text, line) ==
  IF text = <<>> THEN (IF line = <<>> THEN <<>> ELSE <<line>>)
  ELSE IF Head(text) = "\n" THEN <<line>> \o TextLines(Tail(text), <<>>)
  ELSE TextLines(Tail(text), Append(line, Head(text)))

\* the same provenance, and the same value where it is true
EqLeaf(a, b) == a.parse = b.parse /\ (a.parse => a = b)

EqColor(a, b) ==
  /\ a.parse = b.parse
  /\ EqLeaf(a.color, b.color) /\ EqLeaf(a.color_space, b.color_space)
  /\ EqLeaf(a.spectral, b.spectral)

EqTexture(a, b) ==
  /\ a.parse = b.parse
  /\ \A f \in (DOMAIN a) \ {"parse"} : EqLeaf(a[f], b[f])

EqReflection(a, b) ==
  /\ a.parse = b.parse
  /\ \A i \in 1..Len(ReflectionSlots) : EqTexture(a[ReflectionSlots[i]], b[ReflectionSlots[i]])

EqMaterial(a, b) ==
  /\ \A f \in ValueFields \cup {"d"} : EqLeaf(a[f], b[f])
  /\ \A f \in ColorFields : EqColor(a[f], b[f])
  /\ \A f \in TextureFields : EqTexture(a[f], b[f])
  /\ EqReflection(a.refl, b.refl)

EqDocument(ms, ns) ==
  Len(ms) = Len(ns) /\ \A i \in 1..Len(ms) : EqMaterial(ms[i], ns[i])

\* the document a Load() decodes from the text trace(Load&) writes
Redecoded == load(<<>>, TextLines(trace_Load(mtl, info), <<>>)).mtl

\* C15: rendering the document of a load() with trace() and decoding the
\* rendered text again gives a document with the same provenance-true fields
\* and equal values for each of them.
C15_RoundTrip == Loaded => EqDocument(mtl, Redecoded)

-----------------------------------------------------------------------------
(* C16 *)

\* the state of thread i outside Parse::active
Local(i) == <<mtl[i], material[i], tmpl[i], pc[i], pos[i], nload[i]>>

\* a step changes the Load and the locals of one thread at most: only
\* Parse::active is shared
C16_OnlyActive == \E i \in Threads : \A j \in Threads \ {i} : Local(j)' = Local(j)

\* the members thread i assigns in the step
Assigned(i) == {MemberOrder[k] : k \in (pos[i] + 1)..pos'[i]}

\* some flag of the member F, at any depth, is true
Provenance(F, v) ==
  IF F \in ColorFields THEN AnyParsed_Color(v)
  ELSE IF F \in TextureFields THEN AnyParsed_Texture(v)
  ELSE IF F = "refl" THEN AnyParsed_Reflection(v)
  ELSE v.parse

\* a member that lookup() assigns has the value of its source; its provenance
\* is not that of the source only while another thread is inside
\* default_material() and has Parse::active false
C16_Lookup ==
  \A i \in Threads : \A F \in Assigned(i) :
     pc[i] = "lookup" =>
       /\ tmpl'[i][F] \in {mtl[i][1][F], Member_assign(F, mtl[i][1][F], FALSE)}
       /\ tmpl'[i][F] # mtl[i][1][F] =>
            (~active /\ \E j \in Threads \ {i} : pc[j] = "default_material")

\* a member that default_material() assigns has the value of its source; it
\* keeps provenance only when Parse::active is true again, another thread
\* having returned from default_material()
C16_Template ==
  \A i \in Threads : \A F \in Assigned(i) :
     pc[i] = "default_material" =>
       /\ material'[i][F] \in {mtl[i][1][F], Member_assign(F, mtl[i][1][F], FALSE)}
       /\ Provenance(F, material'[i][F]) =>
            (active /\ \E j \in Threads \ {i} : nload[j] >= 1)

\* C16: Parse::active is the only state the Load instances share, and a copy
\* assignment on one thread gets the wrong provenance only through it: a
\* copy of lookup() loses provenance while another thread is inside
\* default_material(), a template copy keeps provenance when another thread
\* has restored the flag.
C16_SharedFlag == [][C16_OnlyActive /\ C16_Lookup /\ C16_Template]_vars

\* both wrong copies have happened: lookup() of thread 1 copied the name
\* without its provenance, and the template copy of thread 2, still inside
\* default_material(), has kept the provenance of the name
C16_Witness ==
  /\ mtl[1][1].name.parse
  /\ tmpl[1].name.value = mtl[1][1].name.value
  /\ ~tmpl[1].name.parse
  /\ pc[2] = "default_material"
  /\ material[2].name.parse

-----------------------------------------------------------------------------
(* C17 *)

\* the line is `refl -type <word> ...` with a word that is none of the seven
\* type names
IsUnknownType(l) ==
  LET toks == Tokens(l)
  IN  /\ Len(toks) >= 3 /\ toks[1] = str_refl /\ toks[2] = Dash(kw_type)
      /\ \A i \in 1..Len(ReflectionNames) : toks[3] # ReflectionNames[i]

C17_Step ==
  (pc = "reading" /\ pos' = pos + 1 /\ IsUnknownType(file'[pos'])) =>
    Last(mtl').refl = Last(mtl).refl

\* C17: a refl line whose -type word is not exactly one of the seven names,
\* a word that only begins with one included, leaves the Reflection (its
\* seven slots and its own provenance) exactly as it was.
C17_UnknownType == [][C17_Step]_vars

-----------------------------------------------------------------------------
(* C18 *)

C18_Step ==
  (/\ Reads("Texture") /\ Len(ReadText) = 3 /\ ReadText[1] = Dash_texres
   /\ IsNumber(ReadText[2]) /\ ReadText[3][1] # "-") =>
    /\ After.texres = Value_set(NumberOf(ReadText[2]))
    /\ After.file = Value_set(ReadText[3])

\* C18: `-texres v <filename>` sets the Texture's texres to v with provenance
\* true and its file to <filename> only.
C18_Texres == [][C18_Step]_vars

-----------------------------------------------------------------------------
(* C19 *)

\* every Texture of every material, the slots of refl included
Textures(m) ==
  {m[F] : F \in TextureFields}
    \cup {m.refl[ReflectionSlots[i]] : i \in 1..Len(ReflectionSlots)}

\* an imfchan with provenance true is one of r, g, b, m, l, z
C19_Channel ==
  \A i \in 1..Len(mtl) : \A t \in Textures(mtl[i]) :
     t.imfchan.parse => <<t.imfchan.value>> \in Channels

\* a word that is not one such character leaves imfchan as it was
C19_Step ==
  (/\ Reads("Texture") /\ Len(ReadText) >= 2 /\ ReadText[1] = Dash(kw_imfchan)
   /\ ReadText[2] \notin Channels) =>
    After.imfchan = Before.imfchan

\* C19: the -imfchan value is accepted only if it is exactly one character of
\* r, g, b, m, l, z: an imfchan with provenance true holds one of them, and a
\* longer or other word leaves imfchan's value and provenance unchanged.
C19_Imfchan == [](C19_Channel) /\ [][C19_Step]_vars

-----------------------------------------------------------------------------
(* C20 *)

\* `-mm <base>` with no gain after it
C20_Model ==
  (/\ Reads("Texture") /\ Len(ReadText) >= 2 /\ ReadText[1] = Dash(kw_mm)
   /\ IsInt(ReadText[2])
   /\ (Len(ReadText) >= 3 => ~StartsNumber(ReadText[3]))) =>
    After.mm = [parse |-> TRUE, base |-> IntOf(ReadText[2]), gain |-> Before.mm.gain]

\* `spectral <file>` with no factor after it
C20_Spectral ==
  (/\ Reads("Color") /\ Len(ReadText) = 2 /\ ReadText[1] = Stripped(kw_spectral)) =>
    After.spectral =
      [parse |-> TRUE, file |-> ReadText[2], factor |-> Before.spectral.factor]

\* C20: `-mm <base>` without a gain leaves gain at the value it had and
\* `spectral <file>` without a factor leaves factor at the value it had; both
\* decode with provenance true.
C20_SecondFieldKept == [][C20_Model /\ C20_Spectral]_vars

-----------------------------------------------------------------------------
(* C21 *)

\* C21: trim returns the text with all leading and trailing white space
\* removed and nothing else removed, for content of any length, length 1
\* included; empty or all-white-space text gives the empty text.
C21_Trim == pc = "trimmed" => CStr(buff, pos) = Stripped(file[1])

\* the same for content of two or more characters, and for none
C21_Longer ==
  (pc = "trimmed" /\ Len(Stripped(file[1])) # 1) => CStr(buff, pos) = Stripped(file[1])

(* C22 *)
\* the step that reads one piece of the file, the piece, the line trim makes
\* of it in the buffer as the earlier lines left it, and the index of the
\* terminator trim wrote
ReadsPiece == pc = "reading" /\ pos' = pos + 1

Piece == file'[pos']

PieceLine == trim(fgets(buff, Piece), 0)

PieceEnd == StrEnd(PieceLine.b, PieceLine.p)

\* the fixed offset the branch of the line adds to `line`
PieceOffset ==
  LET Of(b, line, k) ==
        IF Get(b, line) = "#" THEN 1
        ELSE IF char_cmp(b, line, kw_newmtl) THEN 7
        ELSE IF k # 0 THEN Keywords[k].off
        ELSE 0
  IN  Of(PieceLine.b, PieceLine.p, KeywordIndex(PieceLine.b, PieceLine.p, 1))

\* the position taken after the keyword is not past the terminator
C22_OffsetStep == ReadsPiece => PieceLine.p + PieceOffset <= PieceEnd

\* no byte of an earlier line is read: the line gives the document it gives
\* in a buffer that holds nothing else
C22_FreshStep ==
  ReadsPiece =>
    LET Fresh(r) == mtl' = r.mtl /\ info' = r.info
    IN  Fresh(dispatch(fgets(<<>>, Piece), mtl, info, material))

\* C22: while a line is decoded no read position passes the terminator trim
\* wrote: the offset taken after the keyword (line + 7 after newmtl included)
\* stays within the line, and the bytes an earlier, longer line left in the
\* buffer are never read, so the line decodes as it does alone.
C22_WithinLine == [][C22_OffsetStep /\ C22_FreshStep]_vars

\* the offset alone, and the stale bytes alone
C22_Offsets == [][C22_OffsetStep]_vars

C22_NoStaleBytes == [][C22_FreshStep]_vars

\* a piece that ends in a newline decodes as it does alone
C22_TerminatedFresh == [][(ReadsPiece /\ Terminated(Piece)) => C22_FreshStep]_vars

\* every line but the bare newmtl keeps its offset within the line
C22_NamedOffsets ==
  [][(ReadsPiece /\ CStr(PieceLine.b, PieceLine.p) # kw_newmtl) => C22_OffsetStep]_vars

(* C23 *)
\* the document of the first load(): the file decoded from the Load as it
\* was constructed
FirstLoad == load(IF tmpl = Material THEN <<>> ELSE <<tmpl>>, file)

\* the second load() of the same file has returned
LoadedAgain == Loaded /\ nload = 2

\* C23: load() is repeatable on one Load: after the second load() of the
\* same file the document is the one the first load() gave, with the same
\* names, values, provenance and header comments, the template being the
\* source of the defaults in both.
C23_Repeatable ==
  LoadedAgain => LET Same(d) == mtl = d.mtl /\ info = d.info IN Same(FirstLoad)

\* the header comments alone are the same after both loads
C23_SameComments ==
  LoadedAgain => LET Same(d) == info = d.info IN Same(FirstLoad)

\* a file with one material at most gives the same document again
C23_OneMaterial ==
  LET Same(d) == Len(d.mtl) = 1 => mtl = d.mtl /\ info = d.info
  IN  LoadedAgain => Same(FirstLoad)

\* the second load() starts from the first material of the first document,
\* every flag false, and not from the template
C23_SeededFromDocument ==
  (nload = 2 /\ pc = "reading") =>
    LET Seeded(d) == material = Material_assign(d.mtl[1], FALSE)
    IN  Seeded(FirstLoad)

====
